---- MODULE Spec2Model ----
(***************************************************************************)
(* Prediction-market tracker: the matching engine of src/src/lib/matching.ts*)
(* (normalizeText, extractEntities, calculateMatchScore, findAllMatches,   *)
(* groupMatches).                                                          *)
(*                                                                         *)
(* Titles and ids are strings; a character is a string of length 1.        *)
(* The title similarity and the score built from it are JavaScript numbers *)
(* (IEEE doubles), rounded where the code rounds them.                     *)
(***************************************************************************)
EXTENDS Integers, Sequences, FiniteSets, TLC

VARIABLES markets, call, matches, minScore, groups, pc, groupIn, opportunities, det,
          db, runs, admin, env, now, decayed

vars == <<markets, call, matches, minScore, groups, pc, groupIn, opportunities, det,
          db, runs, admin, env, now, decayed>>

\* The state of the sync service: the database, the runSync executions under
\* way, the requests to the admin routes, the process environment, the
\* clock, and the score whose freshness is asked for.
syncVars == <<db, runs, admin, env, now, decayed>>

\* null, as a record: it is compared with candidates, which are records.
NULL == [null |-> TRUE]

Min(a, b) == IF a < b THEN a ELSE b

Max(a, b) == IF a < b THEN b ELSE a

\* The element of a set of one element.  The({e : x \in {v}}) is e with x
\* standing for the value of v.
The(S) == CHOOSE x \in S : TRUE

(***************************************************************************)
(* Characters.  \w is [A-Za-z0-9_].  \s is the white space and the line    *)
(* terminators of ECMAScript, as far as a string of this module can hold   *)
(* them: tab, line feed, vertical tab, form feed, carriage return, space,  *)
(* U+00A0, U+1680 and U+FEFF (a string here holds the characters up to     *)
(* U+00FF and these two).  toLowerCase maps A-Z and the capital letters    *)
(* U+00C0 to U+00DE.                                                       *)
(***************************************************************************)
UpperCase == "ABCDEFGHIJKLMNOPQRSTUVWXYZ"
LowerCase == "abcdefghijklmnopqrstuvwxyz"
UpperCaseLatin == "ÀÁÂÃÄÅÆÇÈÉÊËÌÍÎÏÐÑÒÓÔÕÖØÙÚÛÜÝÞ"
LowerCaseLatin == "àáâãäåæçèéêëìíîïðñòóôõöøùúûüýþ"
DigitChars == "0123456789"

CharsOf(s) == {SubSeq(s, i, i) : i \in 1..Len(s)}

Digit == CharsOf(DigitChars)
WordChar == CharsOf(UpperCase) \cup CharsOf(LowerCase) \cup Digit \cup {"_"}
WhiteSpace == {" ", "\t", "\n", "\r", "\f", "", " ", " ", "﻿"}

At(s, i) == SubSeq(s, i, i)

\* The small letter of each capital letter of `upper`, computed once.
lowerOf(upper, lower) ==
    [c \in CharsOf(upper) |-> At(lower, CHOOSE i \in 1..Len(upper) : At(upper, i) = c)]

AsciiLower == lowerOf(UpperCase, LowerCase)
AllLower == lowerOf(UpperCase \o UpperCaseLatin, LowerCase \o LowerCaseLatin)

toLowerCase(c) == The({IF c \in DOMAIN small THEN small[c] ELSE c : small \in {AllLower}})

(***************************************************************************)
(* normalizeText: lower-case, every character that is neither \w nor \s    *)
(* becomes a space, every run of white space becomes one space, trim.      *)
(***************************************************************************)
\* The recursive helpers over a text are functions on STRING: a text is then
\* evaluated once, where it is handed over.
lowerAndStrip[text \in STRING] ==
    IF text = "" THEN ""
    ELSE LET c == toLowerCase(Head(text))
         IN (IF c \in WordChar \/ c \in WhiteSpace THEN c ELSE " ")
            \o lowerAndStrip[Tail(text)]

skipSpace[text \in STRING] ==
    IF text # "" /\ Head(text) \in WhiteSpace THEN skipSpace[Tail(text)] ELSE text

collapseSpace[text \in STRING] ==
    IF text = "" THEN ""
    ELSE IF Head(text) \in WhiteSpace
         THEN " " \o collapseSpace[skipSpace[text]]
         ELSE Head(text) \o collapseSpace[Tail(text)]

trimEnd[text \in STRING] ==
    IF text # "" /\ At(text, Len(text)) \in WhiteSpace
    THEN trimEnd[SubSeq(text, 1, Len(text) - 1)]
    ELSE text

\* text.toLowerCase().replace(/[^\w\s]/g, " ").replace(/\s+/g, " ").trim()
normalizeText(text) == trimEnd[skipSpace[collapseSpace[lowerAndStrip[text]]]]

(***************************************************************************)
(* extractEntities.  The patterns run over normalizeText(title), whose     *)
(* characters are [a-z0-9_] and single spaces between words.  There a \b   *)
(* lies exactly at the two ends of every word, so a pattern \b(...)\b      *)
(* matches whole words (two consecutive words for "federal reserve"), and  *)
(* the alternatives that need "$", "," , "." or "%" (the first amounts     *)
(* alternative and the percentages pattern) match nothing.                 *)
(***************************************************************************)
\* The length of the first word of text.
wordLength[text \in STRING] ==
    IF text # "" /\ Head(text) # " " THEN 1 + wordLength[Tail(text)] ELSE 0

words[text \in STRING] ==
    IF text = "" THEN <<>>
    ELSE IF Head(text) = " " THEN words[Tail(text)]
    ELSE <<SubSeq(text, 1, wordLength[text])>>
         \o words[SubSeq(text, wordLength[text] + 1, Len(text))]

\* /\b(20\d{2})\b/g
isYear(w) ==
    Len(w) = 4 /\ SubSeq(w, 1, 2) = "20" /\ At(w, 3) \in Digit /\ At(w, 4) \in Digit

\* /\b(q[1-4])\b/gi
isQuarter(w) == Len(w) = 2 /\ At(w, 1) = "q" /\ At(w, 2) \in {"1", "2", "3", "4"}

\* /\b(january|...|dec)\b/gi
Months ==
    {"january", "february", "march", "april", "may", "june", "july", "august",
     "september", "october", "november", "december", "jan", "feb", "mar", "apr",
     "jun", "jul", "aug", "sep", "oct", "nov", "dec"}

\* the units of /\d+\s*(trillion|billion|million|thousand|k|m|b|t)\b/gi
AmountUnits == {"trillion", "billion", "million", "thousand", "k", "m", "b", "t"}

\* /\b(bitcoin|btc|...|madrid)\b/gi, "federal reserve" apart
KeyTerms ==
    {"bitcoin", "btc", "ethereum", "eth", "fed", "trump", "biden", "gop",
     "democrat", "republican", "spacex", "tesla", "apple", "microsoft", "nvidia",
     "google", "amazon", "ai", "openai", "chatgpt", "newsom", "vance", "dolphins",
     "bayern", "madrid"}

\* The digits at the end of w, as many as there are.
trailingDigits[w \in STRING] ==
    IF w # "" /\ At(w, Len(w)) \in Digit
    THEN trailingDigits[SubSeq(w, 1, Len(w) - 1)] \o At(w, Len(w))
    ELSE ""

\* \d+ unit \b inside one word: the word ends with a unit that follows a digit.
amountInWord[w \in STRING] ==
    {trailingDigits[SubSeq(w, 1, Len(w) - Len(u))] \o u :
        u \in {v \in AmountUnits :
                  /\ Len(w) > Len(v)
                  /\ SubSeq(w, Len(w) - Len(v) + 1, Len(w)) = v
                  /\ At(w, Len(w) - Len(v)) \in Digit}}

\* \d+ \s unit \b: a word that ends with a digit, then a word that is a unit.
amountAcross[w \in STRING, next \in STRING] ==
    IF At(w, Len(w)) \in Digit /\ next \in AmountUnits
    THEN {trailingDigits[w] \o " " \o next}
    ELSE {}

extractEntities(title) ==
    LET normalized == normalizeText(title)
        ws == words[normalized]
        n == Len(ws)
        years == {ws[i] : i \in {j \in 1..n : isYear(ws[j])}}
        quarters == {ws[i] : i \in {j \in 1..n : isQuarter(ws[j])}}
        months == {ws[i] : i \in {j \in 1..n : ws[j] \in Months}}
        amounts ==
            UNION {amountInWord[ws[i]] : i \in 1..n}
            \cup UNION {amountAcross[ws[i], ws[i + 1]] : i \in 1..(n - 1)}
        keyTerms ==
            {ws[i] : i \in {j \in 1..n : ws[j] \in KeyTerms}}
            \cup {"federal reserve" : i \in {j \in 1..(n - 1) :
                        ws[j] = "federal" /\ ws[j + 1] = "reserve"}}
    IN years \cup quarters \cup months \cup amounts \cup keyTerms

\* title.match(/20\d{2}/g) ?? []: the matches, left to right, not overlapping.
yearMatches[text \in STRING] ==
    IF Len(text) < 4 THEN {}
    ELSE IF SubSeq(text, 1, 2) = "20" /\ At(text, 3) \in Digit /\ At(text, 4) \in Digit
         THEN {SubSeq(text, 1, 4)} \cup yearMatches[SubSeq(text, 5, Len(text))]
         ELSE yearMatches[Tail(text)]

(***************************************************************************)
(* Prices.  A price is a JavaScript number (an IEEE double) written with   *)
(* two decimals.  A double near a decimal is kept exactly as               *)
(*     c/100 + e * 2^-59/100                                               *)
(* with c a whole number of hundredths and e the rounding error, so that   *)
(* sums, differences and comparisons come out bit for bit as the double    *)
(* arithmetic of the code: the exact result is rounded to the nearest      *)
(* multiple of the last place of a 53-bit significand, ties to even.       *)
(***************************************************************************)
Dbl(c, e) == [c |-> c, e |-> e]

Negative(x) == x.c < 0 \/ (x.c = 0 /\ x.e < 0)

Neg(x) == Dbl(0 - x.c, 0 - x.e)

\* 2^k mod 100, for k up to 60
PowersMod == [k \in 0..30 |-> (2^k) % 100]

pow2mod(k) == IF k <= 30 THEN PowersMod[k] ELSE (PowersMod[30] * PowersMod[k - 30]) % 100

\* The last place of a double of c hundredths (c >= 1) is 100 * 2^g units.
RECURSIVE lastPlace(_, _)
lastPlace(c, g) == IF 100 * 2^(g + 1) <= 128 * c THEN lastPlace(c, g + 1) ELSE g

placeOf(x) ==
    The({IF 100 * 2^g = 128 * x.c /\ x.e < 0 THEN g - 1 ELSE g : g \in {lastPlace(x.c, 0)}})

\* The units of x above the multiple of 100 * 2^g below it.
remainderAt(x, g) ==
    (2^g * ((x.c * pow2mod(59 - g)) % 100) + x.e) % (100 * 2^g)

roundAt(x, g, r, r2) ==
    IF 2 * r < 100 * 2^g THEN Dbl(x.c, x.e - r)
    ELSE IF 2 * r > 100 * 2^g THEN Dbl(x.c, x.e - r + 100 * 2^g)
    ELSE IF r2 >= 100 * 2^g THEN Dbl(x.c, x.e - r + 100 * 2^g)
    ELSE Dbl(x.c, x.e - r)

roundPositive(x) ==
    IF x.c = 0 THEN x
    ELSE The({roundAt(x, g, remainderAt(x, g), remainderAt(x, g + 1)) : g \in {placeOf(x)}})

roundDouble(x) == IF Negative(x) THEN Neg(roundPositive(Neg(x))) ELSE roundPositive(x)

\* The double of the literal c/100, and of the whole number n.
Price(c) == roundDouble(Dbl(c, 0))

Whole(n) == Dbl(100 * n, 0)

dAdd(x, y) == roundDouble(Dbl(x.c + y.c, x.e + y.e))

dSub(x, y) == roundDouble(Dbl(x.c - y.c, x.e - y.e))

dTimes100(x) == roundDouble(Dbl(100 * x.c, 100 * x.e))

dLess(x, y) == x.c < y.c \/ (x.c = y.c /\ x.e < y.e)

dAbs(x) == IF Negative(x) THEN Neg(x) ELSE x

dMax(x, y) == IF dLess(x, y) THEN y ELSE x

dMin(x, y) == IF dLess(y, x) THEN y ELSE x

NaN == [nan |-> TRUE]

Infinity == [infinity |-> TRUE]

(***************************************************************************)
(* Whole numbers of any size.  A number is the sequence of its digits of   *)
(* base 2^14, the lowest first and the highest not zero; zero is <<>>.     *)
(* The operators big... work their operands out first, once; the others    *)
(* take numbers that are worked out already.                               *)
(***************************************************************************)
Base == 2^14

RECURSIVE bigOf(_)
bigOf(n) == IF n = 0 THEN <<>> ELSE <<n % Base>> \o bigOf(n \div Base)

RECURSIVE intOf(_)
intOf(a) == IF a = <<>> THEN 0 ELSE a[1] + Base * intOf(Tail(a))

digit(a, i) == IF 1 <= i /\ i <= Len(a) THEN a[i] ELSE 0

\* The place of the highest digit of a that is not zero, 0 when there is none.
topDigit(a) ==
    CHOOSE i \in 0..Len(a) : (i = 0 \/ a[i] # 0) /\ \A j \in (i + 1)..Len(a) : a[j] = 0

trim(x) == CHOOSE r \in {SubSeq(a, 1, topDigit(a)) : a \in {x \o <<>>}} : TRUE

\* A carry reaches digit i from a lower digit whose sum overflows, through
\* digits whose sum is Base - 1.
carryInto(a, b, i) ==
    \E j \in 1..(i - 1) :
        /\ digit(a, j) + digit(b, j) >= Base
        /\ \A k \in (j + 1)..(i - 1) : digit(a, k) + digit(b, k) = Base - 1

sumDigits(a, b) ==
    trim([i \in 1..(Max(Len(a), Len(b)) + 1) |->
             (digit(a, i) + digit(b, i) + (IF carryInto(a, b, i) THEN 1 ELSE 0)) % Base])

bigAdd(x, y) == CHOOSE r \in {sumDigits(a, b) : a \in {x}, b \in {y}} : TRUE

borrowInto(a, b, i) ==
    \E j \in 1..(i - 1) :
        /\ a[j] < digit(b, j)
        /\ \A k \in (j + 1)..(i - 1) : a[k] = digit(b, k)

differenceDigits(a, b) ==
    trim([i \in 1..Len(a) |->
             (a[i] - digit(b, i) - (IF borrowInto(a, b, i) THEN 1 ELSE 0) + Base) % Base])

\* x - y for y <= x
bigSub(x, y) == CHOOSE r \in {differenceDigits(a, b) : a \in {x}, b \in {y}} : TRUE

lessDigits(a, b) ==
    IF Len(a) # Len(b) THEN Len(a) < Len(b)
    ELSE \E i \in 1..Len(a) : a[i] < b[i] /\ \A j \in (i + 1)..Len(a) : a[j] = b[j]

bigLess(x, y) == CHOOSE r \in {lessDigits(a, b) : a \in {x}, b \in {y}} : TRUE

\* a * n for 0 <= n < Base: the low halves of the products of the digits
\* plus their high halves one place up.
timesDigits(a, n) ==
    bigAdd([i \in 1..Len(a) |-> (a[i] * n) % Base] \o <<>>,
           <<0>> \o [i \in 1..Len(a) |-> (a[i] * n) \div Base])

bigTimes(x, n) == CHOOSE r \in {timesDigits(a, n) : a \in {x}} : TRUE

RECURSIVE mulFrom(_, _, _, _)
mulFrom(a, b, j, acc) ==
    IF j = 0 THEN acc
    ELSE mulFrom(a, b, j - 1, bigAdd(timesDigits(a, b[j]), <<0>> \o acc))

bigMul(x, y) == CHOOSE r \in {mulFrom(a, b, Len(b), <<>>) : a \in {x}, b \in {y}} : TRUE

RECURSIVE divFrom(_, _, _, _, _)
divFrom(a, n, i, rem, quot) ==
    IF i = 0 THEN [quot |-> trim(quot), rem |-> rem]
    ELSE CHOOSE r \in {divFrom(a, n, i - 1, t % n, <<t \div n>> \o quot) :
                          t \in {rem * Base + a[i]}} : TRUE

\* x div n and x mod n for 0 < n < 2^16
bigDivSmall(x, n) == CHOOSE r \in {divFrom(a, n, Len(a), 0, <<>>) : a \in {x}} : TRUE

\* a * 2^k and a div 2^k, for k = 14 * q + s
shlDigits(a, q, s) ==
    trim([i \in 1..(Len(a) + q + 1) |->
             (digit(a, i - q) % 2^(14 - s)) * 2^s + digit(a, i - q - 1) \div 2^(14 - s)])

bigShl(x, k) == CHOOSE r \in {shlDigits(a, k \div 14, k % 14) : a \in {x}} : TRUE

shrDigits(a, q, s) ==
    trim([i \in 1..(Len(a) - q) |->
             digit(a, i + q) \div 2^s + (digit(a, i + q + 1) % 2^s) * 2^(14 - s)])

bigShr(x, k) == CHOOSE r \in {shrDigits(a, k \div 14, k % 14) : a \in {x}} : TRUE

\* The number of bits of n, for n < 2^30
bitsOf(n) == CHOOSE k \in 0..30 : n < 2^k /\ (k = 0 \/ 2^(k - 1) <= n)

bitLength(a) == IF a = <<>> THEN 0 ELSE 14 * (Len(a) - 1) + bitsOf(a[Len(a)])

\* Bit k of a (bit 0 is the lowest), and whether a bit below bit k is set.
bitAt(a, k) == IF k < 0 THEN 0 ELSE (digit(a, k \div 14 + 1) \div 2^(k % 14)) % 2

anyBelow(a, k) ==
    /\ k > 0
    /\ \/ \E i \in 1..Len(a) : i <= k \div 14 /\ a[i] # 0
       \/ digit(a, k \div 14 + 1) % 2^(k % 14) # 0

\* The number of zero bits at the end of a, for a that is not zero.
zerosOf(n) == CHOOSE k \in 0..13 : n % 2^k = 0 /\ n % 2^(k + 1) # 0

lowDigit(a) == CHOOSE i \in 1..Len(a) : a[i] # 0 /\ \A j \in 1..(i - 1) : a[j] = 0

trailingZeros(a) == 14 * (lowDigit(a) - 1) + zerosOf(a[lowDigit(a)])

\* The quotient digit of r by d, for r < d * Base and the highest digit of d
\* at least Base / 2: an estimate from the highest digits that is never too
\* large, put right by subtraction.
RECURSIVE correct(_, _, _)
correct(q, r, d) ==
    IF lessDigits(r, d) THEN [quot |-> q, rem |-> r]
    ELSE CHOOSE x \in {correct(q + 1, less, d) : less \in {differenceDigits(r, d)}} : TRUE

estimate(r, d) == (digit(r, Len(d)) + Base * digit(r, Len(d) + 1)) \div (d[Len(d)] + 1)

stepDigit(r, d) ==
    CHOOSE x \in {correct(qhat[1], qhat[2], d) :
                     qhat \in {<<q, bigSub(r, timesDigits(d, q))>> : q \in {estimate(r, d)}}} : TRUE

RECURSIVE longDiv(_, _, _, _, _)
longDiv(a, d, i, r, quot) ==
    IF i = 0 THEN [quot |-> trim(quot), rem |-> r]
    ELSE CHOOSE x \in {longDiv(a, d, i - 1, s.rem, <<s.quot>> \o quot) :
                          s \in {stepDigit(rr, d) : rr \in {trim(<<a[i]>> \o r)}}} : TRUE

\* a div d, and a mod d up to the power of two both were scaled by
divModDigits(a, d) ==
    IF Len(d) = 1
    THEN CHOOSE x \in {[quot |-> r.quot, rem |-> bigOf(r.rem)] :
                          r \in {divFrom(a, d[1], Len(a), 0, <<>>)}} : TRUE
    ELSE CHOOSE x \in {longDiv(aa, dd, Len(aa), <<>>, <<>>) :
                          aa \in {bigShl(a, 14 - bitsOf(d[Len(d)]))},
                          dd \in {bigShl(d, 14 - bitsOf(d[Len(d)]))}} : TRUE

bigDivMod(x, y) == CHOOSE r \in {divModDigits(a, d) : a \in {x}, d \in {y}} : TRUE

(***************************************************************************)
(* Doubles.  A JavaScript number is an IEEE 754 double: NaN, Infinity,     *)
(* NegInfinity, or [neg, m, e] for (-1)^neg * m * 2^e with m odd, or zero  *)
(* with m = <<>> and e = 0.  Every operation rounds its exact result to    *)
(* the nearest double, ties to even.                                       *)
(***************************************************************************)
NegInfinity == [infinity |-> TRUE, neg |-> TRUE]

Zero(neg) == [neg |-> neg, m |-> <<>>, e |-> 0]

isFinite(x) == "m" \in DOMAIN x

isZero(x) == isFinite(x) /\ x.m = <<>>

isNegative(x) == "neg" \in DOMAIN x /\ x.neg

infinite(neg) == IF neg THEN NegInfinity ELSE Infinity

\* The exponent of the highest bit of x, for a finite x that is not zero.
topExponent(x) == x.e + bitLength(x.m) - 1

\* n * 2^e with the zero bits at the end of n moved into e
finiteOf(neg, n, e) ==
    IF n = <<>> THEN Zero(neg)
    ELSE IF e + bitLength(n) - 1 > 1023 THEN infinite(neg)
    ELSE [neg |-> neg, m |-> shrDigits(n, trailingZeros(n) \div 14, trailingZeros(n) % 14),
          e |-> e + trailingZeros(n)]

finite(neg, x, e) == CHOOSE r \in {finiteOf(neg, n, e) : n \in {x}} : TRUE

\* n without its drop lowest bits, to the nearest, to the even one of two
roundedOff(n, drop, sticky) ==
    CHOOSE r \in {IF /\ bitAt(n, drop - 1) = 1
                     /\ (sticky \/ anyBelow(n, drop - 1) \/ digit(q, 1) % 2 = 1)
                  THEN sumDigits(q, <<1>>) ELSE q : q \in {bigShr(n, drop)}} : TRUE

\* The double nearest to n * 2^e, or to a number above it by less than 2^e
\* when sticky: a double holds 53 bits, fewer below 2^-1022.
nearestOf(neg, n, e, sticky) ==
    CHOOSE r \in {finiteOf(neg, kept[1], kept[2]) :
                     kept \in {IF drop <= 0 THEN <<n, e>>
                               ELSE <<roundedOff(n, drop, sticky), e + drop>> :
                                  drop \in {bitLength(n) - Min(53, e + bitLength(n) + 1074)}}} : TRUE

nearestDouble(neg, x, e, sticky) ==
    CHOOSE r \in {nearestOf(neg, n, e, sticky) : n \in {x}} : TRUE

fromInt(n) == IF n < 0 THEN finite(TRUE, bigOf(0 - n), 0) ELSE finite(FALSE, bigOf(n), 0)

negOf(x) ==
    IF x = NaN THEN NaN
    ELSE IF x = Infinity THEN NegInfinity
    ELSE IF x = NegInfinity THEN Infinity
    ELSE [x EXCEPT !.neg = ~@]

\* |x| < |y| for finite x and y that are not zero
lessMagnitude(x, y) ==
    IF topExponent(x) # topExponent(y) THEN topExponent(x) < topExponent(y)
    ELSE bigLess(bigShl(x.m, x.e - Min(x.e, y.e)), bigShl(y.m, y.e - Min(x.e, y.e)))

lessOf(x, y) ==
    IF x = NaN \/ y = NaN \/ x = y THEN FALSE
    ELSE IF x = NegInfinity \/ y = Infinity THEN TRUE
    ELSE IF x = Infinity \/ y = NegInfinity THEN FALSE
    ELSE IF isZero(x) THEN ~isZero(y) /\ ~y.neg
    ELSE IF isZero(y) THEN x.neg
    ELSE IF x.neg # y.neg THEN x.neg
    ELSE IF x.neg THEN lessMagnitude(y, x)
    ELSE lessMagnitude(x, y)

\* |x| + |y| and |x| - |y| with the sign neg, for finite x and y, not zero,
\* and |y| < |x| in the difference.  A y below the 64th bit of x only says
\* on which side of x the result lies.
sumOf(neg, x, y) ==
    CHOOSE r \in {nearestOf(neg, s[1], s[2], s[3]) :
                     s \in {IF topExponent(x) - topExponent(y) >= 64
                            THEN <<bigShl(x.m, 64 - bitLength(x.m)), topExponent(x) - 63, TRUE>>
                            ELSE IF topExponent(y) - topExponent(x) >= 64
                            THEN <<bigShl(y.m, 64 - bitLength(y.m)), topExponent(y) - 63, TRUE>>
                            ELSE <<bigAdd(bigShl(x.m, x.e - Min(x.e, y.e)),
                                          bigShl(y.m, y.e - Min(x.e, y.e))),
                                   Min(x.e, y.e), FALSE>>}} : TRUE

differenceOf(neg, x, y) ==
    CHOOSE r \in {nearestOf(neg, d[1], d[2], d[3]) :
                     d \in {IF topExponent(x) - topExponent(y) >= 64
                            THEN <<bigSub(bigShl(x.m, 64 - bitLength(x.m)), <<1>>),
                                   topExponent(x) - 63, TRUE>>
                            ELSE <<bigSub(bigShl(x.m, x.e - Min(x.e, y.e)),
                                          bigShl(y.m, y.e - Min(x.e, y.e))),
                                   Min(x.e, y.e), FALSE>>}} : TRUE

addOf(x, y) ==
    IF x = NaN \/ y = NaN THEN NaN
    ELSE IF ~isFinite(x) THEN (IF ~isFinite(y) /\ x # y THEN NaN ELSE x)
    ELSE IF ~isFinite(y) THEN y
    ELSE IF isZero(x) THEN (IF isZero(y) THEN Zero(x.neg /\ y.neg) ELSE y)
    ELSE IF isZero(y) THEN x
    ELSE IF x.neg = y.neg THEN sumOf(x.neg, x, y)
    ELSE IF x.m = y.m /\ x.e = y.e THEN Zero(FALSE)
    ELSE CHOOSE r \in {differenceOf(d[1].neg, d[1], d[2]) :
                          d \in {IF lessMagnitude(x, y) THEN <<y, x>> ELSE <<x, y>>}} : TRUE

mulOf(x, y) ==
    IF x = NaN \/ y = NaN THEN NaN
    ELSE IF ~isFinite(x) \/ ~isFinite(y)
    THEN (IF isZero(x) \/ isZero(y) THEN NaN
          ELSE infinite(isNegative(x) # isNegative(y)))
    ELSE nearestDouble(x.neg # y.neg, bigMul(x.m, y.m), x.e + y.e, FALSE)

\* The quotient is taken to 56 bits or more; what is left over is sticky.
quotientOf(neg, x, y) ==
    CHOOSE r \in {nearestOf(neg, d[1].quot, x.e - y.e - d[2], d[1].rem # <<>>) :
                     d \in {<<bigDivMod(bigShl(x.m, s), y.m), s>> :
                               s \in {Max(0, 56 + bitLength(y.m) - bitLength(x.m))}}} : TRUE

divOf(x, y) ==
    IF x = NaN \/ y = NaN THEN NaN
    ELSE IF ~isFinite(x)
    THEN (IF ~isFinite(y) THEN NaN ELSE infinite(isNegative(x) # isNegative(y)))
    ELSE IF ~isFinite(y) THEN Zero(x.neg # isNegative(y))
    ELSE IF isZero(y)
    THEN (IF isZero(x) THEN NaN ELSE infinite(x.neg # y.neg))
    ELSE IF isZero(x) THEN Zero(x.neg # y.neg)
    ELSE quotientOf(x.neg # y.neg, x, y)

\* Math.max and Math.min of two numbers
maxOf(x, y) ==
    IF x = NaN \/ y = NaN THEN NaN
    ELSE IF lessOf(x, y) THEN y
    ELSE IF lessOf(y, x) THEN x
    ELSE IF isZero(x) /\ x.neg THEN y ELSE x

minOf(x, y) ==
    IF x = NaN \/ y = NaN THEN NaN
    ELSE IF lessOf(y, x) THEN y
    ELSE IF lessOf(x, y) THEN x
    ELSE IF isZero(y) /\ y.neg THEN y ELSE x

\* -x, |x|, x + y, x - y, x * y, x / y, x < y, x == y, Math.max and Math.min
\* of operands that are worked out first.
fNeg(x) == CHOOSE r \in {negOf(a) : a \in {x}} : TRUE

fAbs(x) == CHOOSE r \in {IF isNegative(a) THEN negOf(a) ELSE a : a \in {x}} : TRUE

fAdd(x, y) == CHOOSE r \in {addOf(a, b) : a \in {x}, b \in {y}} : TRUE

fSub(x, y) == CHOOSE r \in {addOf(a, negOf(b)) : a \in {x}, b \in {y}} : TRUE

fMul(x, y) == CHOOSE r \in {mulOf(a, b) : a \in {x}, b \in {y}} : TRUE

fDiv(x, y) == CHOOSE r \in {divOf(a, b) : a \in {x}, b \in {y}} : TRUE

fLess(x, y) == CHOOSE r \in {lessOf(a, b) : a \in {x}, b \in {y}} : TRUE

fEqual(x, y) ==
    CHOOSE r \in {a # NaN /\ b # NaN /\ (a = b \/ (isZero(a) /\ isZero(b))) :
                     a \in {x}, b \in {y}} : TRUE

\* x >= y
fAtLeast(x, y) == fLess(y, x) \/ fEqual(x, y)

fMax(x, y) == CHOOSE r \in {maxOf(a, b) : a \in {x}, b \in {y}} : TRUE

fMin(x, y) == CHOOSE r \in {minOf(a, b) : a \in {x}, b \in {y}} : TRUE

(***************************************************************************)
(* The words of a double: the high word holds the sign, the 11 bits of the *)
(* exponent and the 20 highest bits of the fraction, the low word holds    *)
(* the 32 lowest bits of the fraction.                                     *)
(***************************************************************************)
\* The exponent of the last bit of the fraction of x.
lastExponent(x) == Max(topExponent(x) - 52, 0 - 1074)

fraction(x) == bigShl(x.m, x.e - lastExponent(x))

\* The high word of a finite x without its sign bit.
highWord(x) ==
    IF isZero(x) THEN 0
    ELSE Max(topExponent(x) + 1022, 0) * 2^20 + intOf(bigShr(fraction(x), 32))

lowWordIsZero(x) == isZero(x) \/ ~anyBelow(fraction(x), 32)

\* __LO(x) = 0
lowWordCleared(x) ==
    IF isZero(x) THEN x ELSE finite(x.neg, bigShr(fraction(x), 32), lastExponent(x) + 32)

clearLowWord(x) == CHOOSE r \in {lowWordCleared(a) : a \in {x}} : TRUE

\* The double of a high word hi (sign bit clear, exponent not zero) and the
\* low word lo1 * 2^16 + lo0
fromWords(hi, lo1, lo0) ==
    finite(FALSE,
           bigAdd(bigShl(bigOf(2^20 + (hi % 2^20)), 32), bigAdd(bigShl(bigOf(lo1), 16), bigOf(lo0))),
           hi \div 2^20 - 1075)

\* x * 2^n, for a result that is not below 2^-1022
scaled(x, n) == finiteOf(x.neg, x.m, x.e + n)

One == fromInt(1)

Two == fromInt(2)

Half == fromWords(\h3FE00000, 0, 0)

(***************************************************************************)
(* Math.log10 and Math.pow as V8 computes them: the functions              *)
(* __ieee754_log, __ieee754_log10 and __ieee754_pow of fdlibm as V8's      *)
(* base::ieee754 has them, step by step, with the names of their           *)
(* variables.  Every value that is used more than once is worked out once  *)
(* and bound.                                                              *)
(***************************************************************************)
ln2_hi == fromWords(\h3FE62E42, \hFEE0, \h0000)

ln2_lo == fromWords(\h3DEA39EF, \h3579, \h3C76)

Lg1 == fromWords(\h3FE55555, \h5555, \h5593)

Lg2 == fromWords(\h3FD99999, \h9997, \hFA04)

Lg3 == fromWords(\h3FD24924, \h9422, \h9359)

Lg4 == fromWords(\h3FCC71C5, \h1D8E, \h78AF)

Lg5 == fromWords(\h3FC74664, \h96CB, \h03DE)

Lg6 == fromWords(\h3FC39A09, \hD078, \hC69F)

Lg7 == fromWords(\h3FC2F112, \hDF3E, \h5244)

\* 0.33333333333333333
Third == fromWords(\h3FD55555, \h5555, \h5555)

\* hx: the 20 highest bits of the fraction of x
fractionWord(x) == intOf(bigShr(bigShl(x.m, 53 - bitLength(x.m)), 32)) - 2^20

\* t1, t2 and R = t2 + t1 of the series in s, with z = s * s and w = z * z
logT1(w) == fMul(w, fAdd(Lg2, fMul(w, fAdd(Lg4, fMul(w, Lg6)))))

logT2(z, w) == fMul(z, fAdd(Lg1, fMul(w, fAdd(Lg3, fMul(w, fAdd(Lg5, fMul(w, Lg7)))))))

logR(s) ==
    CHOOSE R \in {fAdd(logT2(zw[1], zw[2]), logT1(zw[2])) :
                     zw \in {<<z, fMul(z, z)>> : z \in {fMul(s, s)}}} : TRUE

\* |f| < 2^-20
logNearOne(k, f, dk) ==
    IF isZero(f)
    THEN IF k = 0 THEN Zero(FALSE) ELSE fAdd(fMul(dk, ln2_hi), fMul(dk, ln2_lo))
    ELSE CHOOSE r \in {IF k = 0 THEN fSub(f, R)
                       ELSE fSub(fMul(dk, ln2_hi), fSub(fSub(R, fMul(dk, ln2_lo)), f)) :
                          R \in {fMul(fMul(f, f), fSub(Half, fMul(Third, f)))}} : TRUE

logFar(hx, k, f, dk, s, R) ==
    IF hx >= \h6147A /\ hx <= \h6B851
    THEN CHOOSE r \in {IF k = 0 THEN fSub(f, fSub(hfsq, fMul(s, fAdd(hfsq, R))))
                       ELSE fSub(fMul(dk, ln2_hi),
                                 fSub(fSub(hfsq, fAdd(fMul(s, fAdd(hfsq, R)), fMul(dk, ln2_lo))), f)) :
                          hfsq \in {fMul(fMul(Half, f), f)}} : TRUE
    ELSE IF k = 0 THEN fSub(f, fMul(s, fSub(f, R)))
    ELSE fSub(fMul(dk, ln2_hi), fSub(fSub(fMul(s, fSub(f, R)), fMul(dk, ln2_lo)), f))

logReduced(hx, k, f, dk) ==
    IF (2 + hx) % \h100000 < 3 THEN logNearOne(k, f, dk)
    ELSE CHOOSE r \in {logFar(hx, k, f, dk, sR[1], sR[2]) :
                          sR \in {<<s, logR(s)>> : s \in {fDiv(f, fAdd(Two, f))}}} : TRUE

\* __ieee754_log(x) for a finite x > 0; k is the exponent of x, one more
\* when the fraction is above sqrt(2), f is x * 2^-k - 1 and dk is k.
logOf(x) ==
    CHOOSE r \in {logReduced(v[1], v[2], v[3], v[4]) :
                     v \in {<<hk[1], hk[2], fSub(scaled(x, 0 - hk[2]), One), fromInt(hk[2])>> :
                               hk \in {<<hx, topExponent(x)
                                             + (IF hx + \h95F64 >= \h100000 THEN 1 ELSE 0)>> :
                                          hx \in {fractionWord(x)}}}} : TRUE

ieee754_log(x) ==
    IF x = NaN THEN NaN
    ELSE IF isZero(x) THEN NegInfinity
    ELSE IF isNegative(x) THEN NaN
    ELSE IF x = Infinity THEN Infinity
    ELSE logOf(x)

ivln10 == fromWords(\h3FDBCB7B, \h1526, \hE50E)

log10_2hi == fromWords(\h3FD34413, \h509F, \h6000)

log10_2lo == fromWords(\h3D59FEF3, \h11F1, \h2B36)

\* __ieee754_log10(x) for a finite x > 0; y is the double of k + i and x1
\* is x with the exponent -i.
log10Of(x) ==
    CHOOSE r \in {fAdd(fAdd(fMul(yx[1], log10_2lo), fMul(ivln10, logOf(yx[2]))),
                       fMul(yx[1], log10_2hi)) :
                     yx \in {<<fromInt(k), scaled(x, 0 - k)>> :
                                k \in {topExponent(x) + (IF topExponent(x) < 0 THEN 1 ELSE 0)}}} : TRUE

ieee754_log10(x) ==
    IF x = NaN THEN NaN
    ELSE IF isZero(x) THEN NegInfinity
    ELSE IF isNegative(x) THEN NaN
    ELSE IF x = Infinity THEN Infinity
    ELSE log10Of(x)

\* Math.log10
log10(x) == CHOOSE r \in {ieee754_log10(a) : a \in {x}} : TRUE

P1 == fromWords(\h3FC55555, \h5555, \h553E)

P2 == fNeg(fromWords(\h3F66C16C, \h16BE, \hBD93))

P3 == fromWords(\h3F11566A, \hAF25, \hDE2C)

P4 == fNeg(fromWords(\h3EBBBD41, \hC5D2, \h6BF1))

P5 == fromWords(\h3E663769, \h72BE, \hA4D0)

lg2 == fromWords(\h3FE62E42, \hFEFA, \h39EF)

lg2_h == fromWords(\h3FE62E43, \h0000, \h0000)

lg2_l == fNeg(fromWords(\h3E205C61, \h0CA8, \h6C39))

ovt == fromWords(\h3C971547, \h652B, \h82FE)

\* sqrt(0.5)
SqrtHalf == fromWords(\h3FE6A09E, \h667F, \h3BCD)

\* The whole number n nearest to z = p_l + p_h at the end of __ieee754_pow,
\* from j, the high word of z without its sign; nm is the high word of
\* |z| + 1/2 and k its exponent.
expNm(j) == j + 2^(19 - (j \div 2^20 - \h3FF))

expK(j) == expNm(j) \div 2^20 - \h3FF

expWhole(j) == fromWords(expNm(j) - (expNm(j) % 2^(20 - expK(j))), 0, 0)

expN(z, j) ==
    IF j <= \h3FE00000 THEN 0
    ELSE IF z.neg THEN 0 - ((2^20 + (expNm(j) % 2^20)) \div 2^(20 - expK(j)))
    ELSE (2^20 + (expNm(j) % 2^20)) \div 2^(20 - expK(j))

\* p_h without the whole number
expPh(p_h, z, j) ==
    IF j <= \h3FE00000 THEN p_h
    ELSE fSub(p_h, IF z.neg THEN fNeg(expWhole(j)) ELSE expWhole(j))

expT1(z, t) ==
    fSub(z, fMul(t, fAdd(P1, fMul(t, fAdd(P2, fMul(t, fAdd(P3, fMul(t, fAdd(P4, fMul(t, P5))))))))))

\* 1 - (r - z) for r = (z * t1) / ((t1 - 2) - (w + z * w)), the one division
\* V8's pow makes of fdlibm's z * t1 / (t1 - 2) - (w + z * w)
expSeries(z, w) ==
    CHOOSE x \in {fSub(One, fSub(fDiv(fMul(z, t1), fSub(fSub(t1, Two), fAdd(w, fMul(z, w)))), z)) :
                     t1 \in {expT1(z, t) : t \in {fMul(z, z)}}} : TRUE

\* 2^(p_l + ph) for |p_l + ph| <= 1/2
expFraction(p_l, ph) ==
    CHOOSE x \in {expSeries(uvz[3], fSub(uvz[2], fSub(uvz[3], uvz[1]))) :
                     uvz \in {<<uv[1], uv[2], fAdd(uv[1], uv[2])>> :
                                 uv \in {<<fMul(t, lg2_h),
                                           fAdd(fMul(fSub(p_l, fSub(t, ph)), lg2), fMul(t, lg2_l))>> :
                                            t \in {clearLowWord(fAdd(p_l, ph))}}}} : TRUE

expScaled(result, n) ==
    IF highWord(result) \div 2^20 + n <= 0
    THEN nearestOf(FALSE, result.m, result.e + n, FALSE)
    ELSE scaled(result, n)

\* 2^(p_h + p_l) at the end of __ieee754_pow
exp2Of(p_h, p_l) ==
    CHOOSE x \in {expScaled(rn[1], rn[2]) :
                     rn \in {<<expFraction(p_l, ph[1]), ph[2]>> :
                                ph \in {<<expPh(p_h, zj[1], zj[2]), expN(zj[1], zj[2])>> :
                                           zj \in {<<z, highWord(z)>> :
                                                      z \in {fAdd(p_l, p_h)}}}}} : TRUE

powRange(p_h, p_l, z, j) ==
    IF ~isNegative(z) /\ j >= \h40900000
    THEN IF j # \h40900000 \/ ~lowWordIsZero(z) THEN Infinity
         ELSE IF fLess(fSub(z, p_h), fAdd(p_l, ovt)) THEN Infinity
         ELSE exp2Of(p_h, p_l)
    ELSE IF j >= \h4090CC00
    THEN IF j # \h4090CC00 \/ ~lowWordIsZero(z) THEN Zero(FALSE)
         ELSE IF ~fLess(fSub(z, p_h), p_l) THEN Zero(FALSE)
         ELSE exp2Of(p_h, p_l)
    ELSE exp2Of(p_h, p_l)

\* __ieee754_pow(0.5, y) from the split of y on: log2(0.5) is t1 + t2 with
\* t1 = -1 and t2 = 0; p is <<p_h, p_l>>.
powHalfOf(y) ==
    CHOOSE x \in {powRange(pz[1], pz[2], pz[3], highWord(pz[3])) :
                     pz \in {<<p[1], p[2], fAdd(p[2], p[1])>> :
                                p \in {<<fMul(y1, fromInt(0 - 1)),
                                         fAdd(fMul(fSub(y, y1), fromInt(0 - 1)),
                                              fMul(y, Zero(FALSE)))>> :
                                          y1 \in {clearLowWord(y)}}}} : TRUE

ieee754_powHalf(y) ==
    IF y = NaN THEN NaN
    ELSE IF isZero(y) THEN One
    ELSE IF y = Infinity THEN Zero(FALSE)
    ELSE IF y = NegInfinity THEN Infinity
    ELSE IF y = One THEN Half
    ELSE IF y = fNeg(One) THEN fDiv(One, Half)
    ELSE IF y = Two THEN fMul(Half, Half)
    ELSE IF y = Half THEN SqrtHalf
    ELSE IF highWord(y) > \h41E00000 THEN (IF y.neg THEN Infinity ELSE Zero(FALSE))
    ELSE powHalfOf(y)

\* Math.pow(0.5, y)
powHalf(y) == CHOOSE r \in {ieee754_powHalf(a) : a \in {y}} : TRUE

(***************************************************************************)
(* Number.prototype.toString of a finite x with |x| >= 10^21, a whole      *)
(* number: the fewest digits that read back as x, the nearest to x of      *)
(* those, then "e+" and the exponent of ten.                               *)
(***************************************************************************)
RECURSIVE decimalOf(_)
decimalOf(a) ==
    IF a = <<>> THEN ""
    ELSE CHOOSE s \in {decimalOf(d.quot) \o ToString(d.rem) : d \in {bigDivSmall(a, 10)}} : TRUE

RECURSIVE tenTo(_)
tenTo(k) ==
    IF k = 0 THEN <<1>>
    ELSE IF k % 2 = 1 THEN bigTimes(tenTo(k - 1), 10)
    ELSE CHOOSE r \in {bigMul(root, root) : root \in {tenTo(k \div 2)}} : TRUE

\* The number of decimal digits of the whole number n > 0, which is not
\* below count - 1 digits long.
RECURSIVE digitsFrom(_, _)
digitsFrom(n, count) ==
    IF bigLess(n, tenTo(count)) THEN count ELSE digitsFrom(n, count + 1)

\* 2^(b - 1) <= n, and 0.30102 < log10(2)
digitCount(n) == digitsFrom(n, ((bitLength(n) - 1) * 30102) \div 100000 + 1)

\* 10^21
ToFixedLimit == fMul(fromInt(10^9), fMul(fromInt(10^6), fromInt(10^6)))

\* Half the way from x to the double next above it (up) or below it.
halfGap(x, up) ==
    IF ~up /\ x.m = <<1>> THEN bigShl(<<1>>, lastExponent(x) - 2)
    ELSE bigShl(<<1>>, lastExponent(x) - 1)

\* The whole number v reads back as x, whose value is the whole number n: v
\* is nearer to x than to the next double, or half way and the last bit of
\* x is 0.
readsBack(v, x, n) ==
    CHOOSE r \in {bigLess(gap, half) \/ (gap = half /\ x.e > lastExponent(x)) :
                     gap \in {IF bigLess(v, n) THEN bigSub(n, v) ELSE bigSub(v, n)},
                     half \in {halfGap(x, ~bigLess(v, n))}} : TRUE

RECURSIVE withoutZeros(_)
withoutZeros(s) ==
    IF Len(s) > 1 /\ SubSeq(s, Len(s), Len(s)) = "0"
    THEN withoutZeros(SubSeq(s, 1, Len(s) - 1))
    ELSE s

\* digits * 10^(exponent - Len(digits) + 1), written d.ddde+exponent
exponential(digits, exponent) ==
    CHOOSE r \in {SubSeq(d, 1, 1) \o (IF Len(d) > 1 THEN "." \o SubSeq(d, 2, Len(d)) ELSE "")
                     \o "e+" \o ToString(exponent) : d \in {withoutZeros(digits)}} : TRUE

\* The k highest digits of n (of len digits), or that number and one, when
\* one of the two reads back as x; more digits otherwise.
\* low and high: that number and that number and one, times 10^(len - k).
shortestOf(x, n, len, k, s, low, high) ==
    CHOOSE r \in {
        IF ~fits[1] /\ ~fits[2] THEN ""
        ELSE IF /\ fits[1]
                /\ \/ ~fits[2]
                   \/ bigLess(bigSub(n, low), bigSub(high, n))
                   \/ (bigSub(n, low) = bigSub(high, n) /\ digit(s, 1) % 2 = 0)
        THEN exponential(decimalOf(s), len - 1)
        ELSE exponential(decimalOf(bigAdd(s, <<1>>)),
                         len - 1 + Len(decimalOf(bigAdd(s, <<1>>))) - k) :
            fits \in {<<readsBack(low, x, n), readsBack(high, x, n)>>}} : TRUE

RECURSIVE shortestFrom(_, _, _, _)
shortestFrom(x, n, len, k) ==
    CHOOSE r \in {IF found = "" THEN shortestFrom(x, n, len, k + 1) ELSE found :
        found \in {shortestOf(x, n, len, k, s, bigMul(s, unit), bigAdd(bigMul(s, unit), unit)) :
                      s \in {bigDivMod(n, unit).quot : unit \in {tenTo(len - k)}},
                      unit \in {tenTo(len - k)}}} : TRUE

numberToString(x) ==
    CHOOSE r \in {(IF x.neg THEN "-" ELSE "") \o shortestFrom(x, n[1], n[2], 1) :
                     n \in {<<w, digitCount(w)>> : w \in {bigShl(x.m, x.e)}}} : TRUE

(***************************************************************************)
(* Number.prototype.toFixed(1): the whole number of tenths nearest to x,   *)
(* the larger one of two, written with a point before its last digit; the  *)
(* string of x itself from 10^21 on.                                       *)
(***************************************************************************)

tenthsOf(x) ==
    IF x.e >= 0 THEN bigTimes(bigShl(x.m, x.e), 10)
    ELSE bigShr(bigAdd(bigTimes(x.m, 20), bigShl(<<1>>, 0 - x.e)), 1 - x.e)

fixed1Of(x) ==
    IF x = NaN THEN "NaN"
    ELSE IF x = Infinity THEN "Infinity"
    ELSE IF x = NegInfinity THEN "-Infinity"
    ELSE IF fAtLeast(fAbs(x), ToFixedLimit) THEN numberToString(x)
    ELSE CHOOSE s \in {(IF x.neg /\ ~isZero(x) THEN "-" ELSE "")
                           \o (IF d.quot = <<>> THEN "0" ELSE decimalOf(d.quot))
                           \o "." \o ToString(d.rem) : d \in {bigDivSmall(tenthsOf(x), 10)}} : TRUE

fixed1(x) == CHOOSE r \in {fixed1Of(a) : a \in {x}} : TRUE

(***************************************************************************)
(* A price as the double it is: (c * 2^59 + e) / 100 is a whole number of  *)
(* units of 2^-59.                                                         *)
(***************************************************************************)
unitsOf(x) ==
    IF x.e < 0 THEN bigSub(bigShl(bigOf(x.c), 59), bigOf(0 - x.e))
    ELSE bigAdd(bigShl(bigOf(x.c), 59), bigOf(x.e))

doubleOfPositive(neg, x) ==
    CHOOSE r \in {nearestOf(neg, d.quot, 0 - 59, d.rem # 0) :
                     d \in {bigDivSmall(unitsOf(x), 100)}} : TRUE

doubleOf(x) ==
    CHOOSE r \in {IF Negative(a) THEN doubleOfPositive(TRUE, Neg(a))
                  ELSE doubleOfPositive(FALSE, a) : a \in {x}} : TRUE

Hundred == fromInt(100)

\* (x / y) * 100
dPercentOf(x, y) == fMul(fDiv(doubleOf(x), doubleOf(y)), Hundred)

(***************************************************************************)
(* stringSimilarity of the package string-similarity-js (bigrams, not case *)
(* sensitive): twice the number of bigrams of str2 that find an unused     *)
(* equal bigram of str1, over the number of bigrams of both.               *)
(***************************************************************************)
\* The bigrams of str, in order.
bigrams[str \in STRING] == [i \in 1..(Len(str) - 1) |-> SubSeq(str, i, i + 1)]

\* The Map of the first loop: how often each bigram of str1 occurs.
bigramCounts[first \in Seq(STRING)] ==
    [b \in {first[i] : i \in 1..Len(first)} |->
        Cardinality({i \in 1..Len(first) : first[i] = b})]

\* The second loop: a bigram of str2 with a count left matches and uses it up.
RECURSIVE bigramMatches(_, _)
bigramMatches(map, second) ==
    IF second = <<>> THEN 0
    ELSE IF Head(second) \in DOMAIN map /\ map[Head(second)] > 0
         THEN 1 + bigramMatches([map EXCEPT ![Head(second)] = @ - 1], Tail(second))
         ELSE bigramMatches(map, Tail(second))

lowerCase[str \in STRING] ==
    IF str = "" THEN "" ELSE toLowerCase(Head(str)) \o lowerCase[Tail(str)]

similarityOf[s1 \in STRING, s2 \in STRING] ==
    IF Len(s1) < 2 \/ Len(s2) < 2 THEN fromInt(0)
    ELSE fDiv(fromInt(bigramMatches(bigramCounts[bigrams[s1]], bigrams[s2]) * 2),
              fromInt(Len(s1) + Len(s2) - 2))

stringSimilarity(str1, str2) == similarityOf[lowerCase[str1], lowerCase[str2]]

(***************************************************************************)
(* The titles the markets of the model carry.                              *)
(***************************************************************************)
Titles ==
    {"BTC above $100K in 2025?",
     "Will BTC hit 100k in 2025",
     "ETH above 100k in 2025?",
     "ETH above 100k in 2026?",
     "Will ETH hit 5k in 2026",
     "btc2025 going up",
     "BTC2025 going up Q1",
     "BTC2025 going up Q2",
     "Will the Fed cut rates in Q1 2026?",
     "Federal Reserve rate cut Q1 2026"}

(***************************************************************************)
(* calculateMatchScore                                                     *)
(***************************************************************************)
TitleWeight == 50
EntityPoints == 10
EntityCap == 30
YearBonus == 10
MatchThreshold == 55
DefaultMinScore == 55

\* Require at least 50% similarity to even consider
SimilarityFloor == Half

\* if (market1.venueId === market2.venueId) return null
\* Variant: markets of one venue are matched as well.
sameVenueNever(market1, market2) == FALSE

\* Variant: the test compares ids instead of venues.
sameVenueById(market1, market2) == market1.id = market2.id

sameVenue(market1, market2) == market1.venueId = market2.venueId

\* entities1.filter(e => entities2.includes(e)); entities1 has no duplicates
commonEntitiesOf(entities1, entities2) == {e \in entities1 : e \in entities2}

\* entities1.length > 0 && entities2.length > 0 && commonEntities.length === 0
\* Variant: only the first title has to yield an entity.
entityMismatchOneSided(entities1, entities2, commonEntities) ==
    entities1 # {} /\ commonEntities = {}

\* Variant: || in place of the first &&.
entityMismatchEither(entities1, entities2, commonEntities) ==
    (entities1 # {} \/ entities2 # {}) /\ commonEntities = {}

entityMismatch(entities1, entities2, commonEntities) ==
    entities1 # {} /\ entities2 # {} /\ commonEntities = {}

\* Math.min(commonEntities.length * 10, 30), added when there is a common entity
entityScore(commonEntities) ==
    IF commonEntities # {}
    THEN Min(Cardinality(commonEntities) * EntityPoints, EntityCap)
    ELSE 0

\* years1.filter(y => years2.includes(y)).length > 0 adds 10
yearScore(title1, title2) ==
    IF {y \in yearMatches[title1] : y \in yearMatches[title2]} # {}
    THEN YearBonus
    ELSE 0

\* if (score < 55) return null
\* Variant: a threshold of 50.
belowThresholdFifty(score) == fLess(score, fromInt(50))

belowThreshold(score) == fLess(score, fromInt(MatchThreshold))

\* let score = 0; score += titleSimilarity * 50; then, when there are any,
\* score += Math.min(commonEntities.length * 10, 30) and score += 10
scoreSum(titleSimilarity, entityPoints, yearPoints) ==
    CHOOSE score \in
        {IF yearPoints > 0 THEN fAdd(withEntities, fromInt(yearPoints)) ELSE withEntities :
            withEntities \in
                {IF entityPoints > 0 THEN fAdd(titlePoints, fromInt(entityPoints))
                 ELSE titlePoints :
                    titlePoints \in {fAdd(Zero(FALSE),
                                          fMul(titleSimilarity, fromInt(TitleWeight)))}}} : TRUE

\* Lines 72-101: the score of two titles that passed the similarity floor, from
\* their normalized forms and their entities; null when a later gate rejects.
scoreEntities(title1, title2, titleSimilarity, entities1, entities2) ==
    LET commonEntities == commonEntitiesOf(entities1, entities2)
        years == yearScore(title1, title2)
        reasons == <<"Title similarity">>
                   \o (IF commonEntities # {} THEN <<"Common entities">> ELSE <<>>)
                   \o (IF years > 0 THEN <<"Same year">> ELSE <<>>)
    IN  IF entityMismatch(entities1, entities2, commonEntities) THEN NULL
        ELSE The({IF belowThreshold(score) THEN NULL
                  ELSE [score |-> score, reasons |-> reasons] :
                     score \in {scoreSum(titleSimilarity, entityScore(commonEntities), years)}})

\* if (titleSimilarity < 0.5) return null
belowFloor(titleSimilarity) == fLess(titleSimilarity, SimilarityFloor)

\* Lines 60-101: what calculateMatchScore computes from the two titles once the
\* venues differ: null, or the score and the reasons.
scoreTitles(t1, t2) ==
    The({The({IF belowFloor(titleSimilarity) THEN NULL
              ELSE scoreEntities(title1, title2, titleSimilarity,
                                 extractEntities(t1), extractEntities(t2)) :
                 titleSimilarity \in {stringSimilarity(title1, title2)}}) :
            title1 \in {normalizeText(t1)}, title2 \in {normalizeText(t2)}})

\* scoreTitles on the titles of the catalogue, computed once.
ScoreTable == [t1 \in Titles, t2 \in Titles |-> scoreTitles(t1, t2)]

titlesResult(t1, t2) ==
    IF t1 \in Titles /\ t2 \in Titles THEN ScoreTable[t1, t2] ELSE scoreTitles(t1, t2)

calculateMatchScore(market1, market2) ==
    IF sameVenue(market1, market2) THEN NULL
    ELSE The({IF r = NULL THEN NULL
              ELSE [market1 |-> market1, market2 |-> market2,
                    score |-> r.score, reasons |-> r.reasons] :
                 r \in {titlesResult(market1.title, market2.title)}})

(***************************************************************************)
(* findAllMatches: every pair i < j in scan order, then a stable sort by   *)
(* score, highest first.                                                   *)
(***************************************************************************)
\* matches.sort((a, b) => b.score - a.score): m goes behind every match the
\* comparison does not put behind m, that is unless m.score - score > 0.
RECURSIVE insertByScore(_, _)
insertByScore(sorted, m) ==
    IF sorted = <<>> THEN <<m>>
    ELSE IF fLess(Zero(FALSE), fSub(m.score, Head(sorted).score)) THEN <<m>> \o sorted
    ELSE <<Head(sorted)>> \o insertByScore(Tail(sorted), m)

RECURSIVE sortByScore(_)
sortByScore(ms) ==
    IF ms = <<>> THEN <<>>
    ELSE insertByScore(sortByScore(SubSeq(ms, 1, Len(ms) - 1)), ms[Len(ms)])

\* for (i = 0 ..) for (j = i + 1 ..): the pairs of positions, in scan order.
RECURSIVE scanPairs(_, _, _)
scanPairs(n, i, j) ==
    IF i > n THEN <<>>
    ELSE IF j > n THEN scanPairs(n, i + 1, i + 2)
    ELSE <<(<<i, j>>)>> \o scanPairs(n, i, j + 1)

findAllMatches(ms) ==
    The({The({sortByScore(found) :
                 found \in {SelectSeq([k \in 1..Len(pairs) |->
                                          calculateMatchScore(ms[pairs[k][1]],
                                                              ms[pairs[k][2]])],
                                      LAMBDA match : match # NULL)}}) :
            pairs \in {scanPairs(Len(ms), 1, 2)}})

(***************************************************************************)
(* groupMatches.  The Map of groups keeps insertion order: a sequence of   *)
(* [key, members]; set() on a present key replaces its value in place.     *)
(***************************************************************************)
mapSet(map, key, value) ==
    IF \E k \in 1..Len(map) : map[k].key = key
    THEN [k \in 1..Len(map) |->
            IF map[k].key = key THEN [key |-> key, members |-> value] ELSE map[k]]
    ELSE Append(map, [key |-> key, members |-> value])

\* Variant: no filter.
validMatchesOfAll(ms, min) == ms

\* matches.filter(m => m.score >= minScore)
validMatchesOf(ms, min) == SelectSeq(ms, LAMBDA m : fAtLeast(m.score, fromInt(min)))

\* Variant: nothing is grouped once a group exists.
alreadyUsedOnce(usedMarkets, id1, id2) == usedMarkets # {}


\* Variant: only id1 is looked up.
alreadyUsedFirst(usedMarkets, id1, id2) == id1 \in usedMarkets

\* Variant: && in place of ||.
alreadyUsedBoth(usedMarkets, id1, id2) == id1 \in usedMarkets /\ id2 \in usedMarkets

\* usedMarkets.has(id1) || usedMarkets.has(id2)
alreadyUsed(usedMarkets, id1, id2) == id1 \in usedMarkets \/ id2 \in usedMarkets

\* Variant: a candidate with one used market joins that market's group
\* (transitive grouping).
joinGroup(grps, usedId, market) ==
    [k \in DOMAIN grps |->
        IF \E i \in 1..Len(grps[k].members) : grps[k].members[i].id = usedId
        THEN [grps[k] EXCEPT !.members = Append(@, market)]
        ELSE grps[k]]

RECURSIVE walkMatchesMerging(_, _, _)
walkMatchesMerging(validMatches, usedMarkets, grps) ==
    IF validMatches = <<>> THEN grps
    ELSE LET match == Head(validMatches)
             id1 == match.market1.id
             id2 == match.market2.id
             rest == Tail(validMatches)
         IN  IF id1 \in usedMarkets /\ id2 \in usedMarkets
             THEN walkMatchesMerging(rest, usedMarkets, grps)
             ELSE IF id1 \in usedMarkets
             THEN walkMatchesMerging(rest, usedMarkets \cup {id2},
                                     joinGroup(grps, id1, match.market2))
             ELSE IF id2 \in usedMarkets
             THEN walkMatchesMerging(rest, usedMarkets \cup {id1},
                                     joinGroup(grps, id2, match.market1))
             ELSE walkMatchesMerging(rest, usedMarkets \cup {id1, id2},
                                     mapSet(grps, id1 \o "-" \o id2,
                                            <<match.market1, match.market2>>))

RECURSIVE walkMatches(_, _, _)
walkMatches(validMatches, usedMarkets, grps) ==
    IF validMatches = <<>> THEN grps
    ELSE LET match == Head(validMatches)
             id1 == match.market1.id
             id2 == match.market2.id
         IN IF alreadyUsed(usedMarkets, id1, id2)
            THEN walkMatches(Tail(validMatches), usedMarkets, grps)
            ELSE walkMatches(Tail(validMatches), usedMarkets \cup {id1, id2},
                             mapSet(grps, id1 \o "-" \o id2,
                                    <<match.market1, match.market2>>))

groupMatches(ms, candidates, min) ==
    walkMatches(validMatchesOf(candidates, min), {}, <<>>)

(***************************************************************************)
(* Opportunity detection (src/unnamed/part_000).                           *)
(***************************************************************************)
lowerAndDelete[text \in STRING] ==
    IF text = "" THEN ""
    ELSE LET c == toLowerCase(Head(text))
         IN (IF c \in WordChar \/ c \in WhiteSpace THEN c ELSE "")
            \o lowerAndDelete[Tail(text)]

\* name.toLowerCase().replace(/[^\w\s]/g, "").trim()
normalizeOutcomeName(name) == trimEnd[skipSpace[lowerAndDelete[name]]]

priceEntry(market, outcome) ==
    [venueId |-> market.venueId, venueName |-> market.venue.name,
     price |-> outcome.price, marketUrl |-> IF market.url = "" THEN NULL ELSE market.url]

newComparison(key, outcome) ==
    [key |-> key, outcomeName |-> outcome.name, prices |-> <<>>,
     spread |-> Dbl(0, 0), spreadPercent |-> Zero(FALSE)]

hasKey(map, key) == \E k \in 1..Len(map) : map[k].key = key

\* outcomeMap.set(normalizedName, {...}) when the name is new, then
\* outcomeMap.get(normalizedName).prices.push({...})
pushPrice(map, key, market, outcome) ==
    [k \in 1..(IF hasKey(map, key) THEN Len(map) ELSE Len(map) + 1) |->
        IF k <= Len(map)
        THEN IF map[k].key = key
             THEN [map[k] EXCEPT !.prices = Append(@, priceEntry(market, outcome))]
             ELSE map[k]
        ELSE [newComparison(key, outcome) EXCEPT
                 !.prices = <<priceEntry(market, outcome)>>]]

RECURSIVE collectOutcomes(_, _, _)
collectOutcomes(map, market, outcomes) ==
    IF outcomes = <<>> THEN map
    ELSE collectOutcomes(pushPrice(map, normalizeOutcomeName(Head(outcomes).name),
                                   market, Head(outcomes)),
                         market, Tail(outcomes))

RECURSIVE collectMarkets(_, _)
collectMarkets(map, ms) ==
    IF ms = <<>> THEN map
    ELSE collectMarkets(collectOutcomes(map, Head(ms), Head(ms).outcomes), Tail(ms))

\* Math.max(...prices) and Math.min(...prices) of a list that is not empty
RECURSIVE maxPriceOf(_)
maxPriceOf(prices) ==
    IF Len(prices) = 1 THEN prices[1].price
    ELSE dMax(prices[1].price, maxPriceOf(Tail(prices)))

RECURSIVE minPriceOf(_)
minPriceOf(prices) ==
    IF Len(prices) = 1 THEN prices[1].price
    ELSE dMin(prices[1].price, minPriceOf(Tail(prices)))

\* Variant: the spread is taken against zero.
spreadOfMax(maxPrice, minPrice) == maxPrice


spreadOf(maxPrice, minPrice) == dSub(maxPrice, minPrice)

\* minPrice > 0 ? (comparison.spread / minPrice) * 100 : 0
spreadPercentOf(spread, minPrice) ==
    IF dLess(Dbl(0, 0), minPrice) THEN dPercentOf(spread, minPrice) ELSE Zero(FALSE)

withSpread(comparison) ==
    IF Len(comparison.prices) > 1
    THEN The({The({[comparison EXCEPT !.spread = spread,
                                      !.spreadPercent = spreadPercentOf(spread, minPrice)] :
                      spread \in {spreadOf(maxPriceOf(comparison.prices), minPrice)}}) :
                 minPrice \in {minPriceOf(comparison.prices)}})
    ELSE comparison

matchOutcomes(ms) ==
    The({[k \in 1..Len(map) |-> withSpread(map[k])] : map \in {collectMarkets(<<>>, ms)}})

\* A number that may be missing is NULL or Some(n).
Some(n) == [value |-> n]

\* m.liquidity || 0, summed, and divided by the number of markets
liquidityOf(market) == IF market.liquidity = NULL THEN 0 ELSE market.liquidity.value

RECURSIVE totalLiquidityOf(_)
totalLiquidityOf(ms) ==
    IF ms = <<>> THEN 0 ELSE totalLiquidityOf(SubSeq(ms, 1, Len(ms) - 1)) + liquidityOf(ms[Len(ms)])

\* totalLiquidity / group.markets.length; 0 / 0 is NaN
avgLiquidityOf(ms) == fDiv(fromInt(totalLiquidityOf(ms)), fromInt(Len(ms)))

venueCountOf(ms) == Cardinality({ms[i].venueId : i \in 1..Len(ms)})

RECURSIVE joinNames(_)
joinNames(ms) ==
    IF ms = <<>> THEN ""
    ELSE IF Len(ms) = 1 THEN ms[1].venue.name
    ELSE ms[1].venue.name \o ", " \o joinNames(Tail(ms))

\* (x * 100).toFixed(1)
percentFixed1(x) == fixed1(doubleOf(dTimes100(x)))

SpreadFloor == Price(3)

significant(comparison) ==
    Len(comparison.prices) >= 2 /\ ~dLess(comparison.spread, SpreadFloor)

RECURSIVE maxSpreadOf(_)
maxSpreadOf(comparisons) ==
    IF comparisons = <<>> THEN Dbl(0, 0)
    ELSE dMax(maxSpreadOf(SubSeq(comparisons, 1, Len(comparisons) - 1)),
              comparisons[Len(comparisons)].spread)

\* significantDivergences.sort((a, b) => b.spread - a.spread), in place
RECURSIVE insertBySpread(_, _)
insertBySpread(sorted, comparison) ==
    IF sorted = <<>> THEN <<comparison>>
    ELSE IF dLess(Head(sorted).spread, comparison.spread)
         THEN <<comparison>> \o sorted
         ELSE <<Head(sorted)>> \o insertBySpread(Tail(sorted), comparison)

RECURSIVE sortBySpread(_)
sortBySpread(comparisons) ==
    IF comparisons = <<>> THEN <<>>
    ELSE insertBySpread(sortBySpread(SubSeq(comparisons, 1, Len(comparisons) - 1)),
                        comparisons[Len(comparisons)])

\* Math.min(maxSpread * 100, 30)
spreadScoreOf(maxSpread) == doubleOf(dMin(dTimes100(maxSpread), Whole(30)))

\* Variant: the liquidity part has no cap.
liquidityScoreOfUncapped(avgLiquidity) == fMul(log10(fAdd(avgLiquidity, One)), fromInt(5))


\* Math.min(Math.log10(avgLiquidity + 1) * 5, 30)
liquidityScoreOf(avgLiquidity) ==
    fMin(fMul(log10(fAdd(avgLiquidity, One)), fromInt(5)), fromInt(30))

\* Math.min((venueCount - 1) * 10, 20)
venueScoreOf(venueCount) == fromInt(Min((venueCount - 1) * 10, 20))

\* spreadScore + liquidityScore + venueScore
divergenceScore(maxSpread, avgLiquidity, venueCount) ==
    fAdd(fAdd(spreadScoreOf(maxSpread), liquidityScoreOf(avgLiquidity)),
         venueScoreOf(venueCount))

divergenceFinding(group, sorted, maxSpread) ==
    [groupId |-> group.id,
     type |-> "cross_venue_divergence",
     score |-> divergenceScore(maxSpread, avgLiquidityOf(group.markets),
                               venueCountOf(group.markets)),
     spread |-> maxSpread,
     description |-> sorted[1].outcomeName \o ": " \o percentFixed1(sorted[1].spread)
                        \o "% spread across " \o joinNames(group.markets),
     details |-> [type |-> "cross_venue_divergence", outcomeComparisons |-> sorted],
     avgLiquidity |-> avgLiquidityOf(group.markets)]

detectCrossVenueDivergence(group) ==
    IF Len(group.markets) < 2 THEN NULL
    ELSE The({IF significantDivergences = <<>> THEN NULL
              ELSE divergenceFinding(group, sortBySpread(significantDivergences),
                                     maxSpreadOf(significantDivergences)) :
                 significantDivergences \in
                     {SelectSeq(matchOutcomes(group.markets), significant)}})

\* market.outcomes.reduce((sum, o) => sum + o.price, 0)
RECURSIVE outcomeSumOf(_)
outcomeSumOf(outcomes) ==
    IF outcomes = <<>> THEN Dbl(0, 0)
    ELSE dAdd(outcomeSumOf(SubSeq(outcomes, 1, Len(outcomes) - 1)),
              outcomes[Len(outcomes)].price)

Tolerance == Price(3)

deviationOf(outcomeSum) == dAbs(dSub(outcomeSum, Whole(1)))

\* Variant: only a sum above 1 is looked at.
flaggedExcess(outcomeSum) == dLess(Tolerance, dSub(outcomeSum, Whole(1)))


\* Variant: a tolerance of 0.01.
flaggedTight(outcomeSum) == dLess(Price(1), deviationOf(outcomeSum))


flagged(outcomeSum) == dLess(Tolerance, deviationOf(outcomeSum))

directionOf(outcomeSum) == IF dLess(Whole(1), outcomeSum) THEN "exceeds" ELSE "below"

sanityIssue(market, outcomeSum) ==
    [marketId |-> market.id,
     venueId |-> market.venueId,
     venueName |-> market.venue.name,
     issue |-> "Outcome prices " \o directionOf(outcomeSum) \o " 100%: "
                  \o percentFixed1(outcomeSum) \o "%",
     outcomeSum |-> outcomeSum]

RECURSIVE sanityIssuesOf(_)
sanityIssuesOf(ms) ==
    IF ms = <<>> THEN <<>>
    ELSE The({sanityIssuesOf(SubSeq(ms, 1, Len(ms) - 1))
                 \o (IF flagged(outcomeSum)
                     THEN <<sanityIssue(ms[Len(ms)], outcomeSum)>> ELSE <<>>) :
                 outcomeSum \in {outcomeSumOf(ms[Len(ms)].outcomes)}})

RECURSIVE maxDeviationOf(_)
maxDeviationOf(issues) ==
    IF Len(issues) = 1 THEN deviationOf(issues[1].outcomeSum)
    ELSE dMax(deviationOf(issues[1].outcomeSum), maxDeviationOf(Tail(issues)))

deviationScoreOf(maxDeviation) == dMin(dTimes100(maxDeviation), Whole(40))

countScoreOf(count) == Whole(Min(count * 10, 30))

sanityFinding(group, issues, maxDeviation) ==
    [groupId |-> group.id,
     type |-> "internal_sanity",
     score |-> doubleOf(dAdd(deviationScoreOf(maxDeviation), countScoreOf(Len(issues)))),
     spread |-> maxDeviation,
     description |-> ToString(Len(issues))
                        \o " market(s) with outcome prices not summing to 100%",
     details |-> [type |-> "internal_sanity", sanityIssues |-> issues],
     avgLiquidity |-> avgLiquidityOf(group.markets)]

detectInternalSanity(group) ==
    The({IF issues = <<>> THEN NULL
         ELSE sanityFinding(group, issues, maxDeviationOf(issues)) :
            issues \in {sanityIssuesOf(group.markets)}})

NearFloor == Neg(Price(2))

\* (profit / totalCost) * 100; a totalCost of 0 gives Infinity
profitPercentOf(profit, totalCost) == dPercentOf(profit, totalCost)

arbitrageInfo(type, yesPrice, noPrice, profit, totalCost) ==
    [type |-> type,
     buyVenue |-> "Buy Yes @ " \o yesPrice.venueName \o ", Buy No @ " \o noPrice.venueName,
     sellVenue |-> "",
     profit |-> profit,
     profitPercent |-> profitPercentOf(profit, totalCost)]

\* Variant: only a pair of equal prices at one venue is skipped.
sameVenueLegsSamePrice(yesPrice, noPrice) ==
    yesPrice.venueId = noPrice.venueId /\ yesPrice.price = noPrice.price


sameVenueLegs(yesPrice, noPrice) == yesPrice.venueId = noPrice.venueId

\* Variant: the first pair found is kept.
betterGuaranteedFirst(bestArbitrage, profit) == bestArbitrage = NULL


betterGuaranteed(bestArbitrage, profit) ==
    bestArbitrage = NULL \/ dLess(bestArbitrage.profit, profit)

betterNear(bestArbitrage, profit) ==
    \/ bestArbitrage = NULL
    \/ (bestArbitrage.type # "guaranteed_profit" /\ dLess(bestArbitrage.profit, profit))

\* Variant: a profit of exactly 0 counts as guaranteed.
isGuaranteedFromZero(profit) == ~dLess(profit, Dbl(0, 0))


isGuaranteed(profit) == dLess(Dbl(0, 0), profit)

isNear(profit) == dLess(NearFloor, profit)

considerPair(bestArbitrage, yesPrice, noPrice, profit, totalCost) ==
    IF isGuaranteed(profit)
    THEN IF betterGuaranteed(bestArbitrage, profit)
         THEN arbitrageInfo("guaranteed_profit", yesPrice, noPrice, profit, totalCost)
         ELSE bestArbitrage
    ELSE IF isNear(profit)
    THEN IF betterNear(bestArbitrage, profit)
         THEN arbitrageInfo("near_arbitrage", yesPrice, noPrice, profit, totalCost)
         ELSE bestArbitrage
    ELSE bestArbitrage

arbitrageStep(bestArbitrage, yesPrice, noPrice) ==
    IF sameVenueLegs(yesPrice, noPrice) THEN bestArbitrage
    ELSE The({considerPair(bestArbitrage, yesPrice, noPrice, dSub(Whole(1), totalCost), totalCost) :
                 totalCost \in {dAdd(yesPrice.price, noPrice.price)}})

\* for (const yesPrice of yesComparison.prices) for (const noPrice of noComparison.prices)
RECURSIVE arbitrageLoop(_, _, _, _, _)
arbitrageLoop(bestArbitrage, yesPrices, noPrices, i, j) ==
    IF i > Len(yesPrices) THEN bestArbitrage
    ELSE IF j > Len(noPrices) THEN arbitrageLoop(bestArbitrage, yesPrices, noPrices, i + 1, 1)
    ELSE arbitrageLoop(arbitrageStep(bestArbitrage, yesPrices[i], noPrices[j]),
                       yesPrices, noPrices, i, j + 1)

\* 80 + profitPercent * 2, or 40 + Math.max(0, profitPercent + 2) * 10
arbitrageScore(bestArbitrage) ==
    IF bestArbitrage.type = "guaranteed_profit"
    THEN fAdd(fromInt(80), fMul(bestArbitrage.profitPercent, Two))
    ELSE fAdd(fromInt(40),
              fMul(fMax(Zero(FALSE), fAdd(bestArbitrage.profitPercent, Two)), fromInt(10)))

\* profitPercent.toFixed(1), (100 + profitPercent).toFixed(1)
arbitrageDescription(bestArbitrage) ==
    IF bestArbitrage.type = "guaranteed_profit"
    THEN "Arbitrage: " \o fixed1(bestArbitrage.profitPercent) \o "% guaranteed profit"
    ELSE "Near-arbitrage: " \o fixed1(fAdd(Hundred, bestArbitrage.profitPercent))
             \o "% total cost"

arbitrageFinding(group, bestArbitrage) ==
    [groupId |-> group.id,
     type |-> "arbitrage",
     score |-> arbitrageScore(bestArbitrage),
     spread |-> dAbs(bestArbitrage.profit),
     description |-> arbitrageDescription(bestArbitrage),
     details |-> [type |-> "arbitrage", arbitrageInfo |-> bestArbitrage],
     avgLiquidity |-> avgLiquidityOf(group.markets)]

\* outcomeComparisons.get(key)
mapGet(map, key) ==
    IF hasKey(map, key) THEN map[CHOOSE k \in 1..Len(map) : map[k].key = key] ELSE NULL

tooFewLegs(yesComparison, noComparison) ==
    Len(yesComparison.prices) < 2 \/ Len(noComparison.prices) < 2

arbitrageOf(group, yesComparison, noComparison) ==
    IF yesComparison = NULL \/ noComparison = NULL THEN NULL
    ELSE IF tooFewLegs(yesComparison, noComparison) THEN NULL
    ELSE The({IF bestArbitrage = NULL THEN NULL ELSE arbitrageFinding(group, bestArbitrage) :
                 bestArbitrage \in
                     {arbitrageLoop(NULL, yesComparison.prices, noComparison.prices, 1, 1)}})

detectArbitrage(group) ==
    IF Len(group.markets) < 2 THEN NULL
    ELSE The({arbitrageOf(group, mapGet(outcomeComparisons, "yes"),
                          mapGet(outcomeComparisons, "no")) :
                 outcomeComparisons \in {matchOutcomes(group.markets)}})

present(finding) == IF finding = NULL THEN <<>> ELSE <<finding>>

detectOpportunities(group) ==
    present(detectCrossVenueDivergence(group))
        \o present(detectInternalSanity(group))
        \o present(detectArbitrage(group))

\* Throwing, e.g. reading .title of undefined
Threw(error) == [threw |-> error]

\* (a.volume || 0) + (a.liquidity || 0) * 2
volumeOf(market) == IF market.volume = NULL THEN 0 ELSE market.volume.value

titleRank(market) == volumeOf(market) + liquidityOf(market) * 2

\* [...markets].sort((a, b) => score2 - score1)
RECURSIVE insertByRank(_, _)
insertByRank(sorted, market) ==
    IF sorted = <<>> THEN <<market>>
    ELSE IF titleRank(Head(sorted)) < titleRank(market)
         THEN <<market>> \o sorted
         ELSE <<Head(sorted)>> \o insertByRank(Tail(sorted), market)

RECURSIVE sortByRank(_)
sortByRank(ms) ==
    IF ms = <<>> THEN <<>>
    ELSE insertByRank(sortByRank(SubSeq(ms, 1, Len(ms) - 1)), ms[Len(ms)])

\* sorted[0].title: the call returns the title, Some(title), or throws the
\* TypeError of reading .title of undefined when the list is empty.
generateCanonicalTitle(ms) ==
    IF ms = <<>> THEN Threw("TypeError") ELSE Some(sortByRank(ms)[1].title)

\* The comparator b.score - a.score is above 0 for a.score = x and
\* b.score = y: b goes before a.
scoreLess(x, y) == fLess(Zero(FALSE), fSub(y, x))

(***************************************************************************)
(* [...opportunities].sort((a, b) => b.score - a.score) as V8 sorts it     *)
(* (third_party/v8/builtins/array-sort.tq): the list is cut into runs of   *)
(* at least the minimum run length, each run is counted, turned round when *)
(* it descends and filled up by binary insertion, and the runs are merged  *)
(* from a stack, galloping when one run wins many times in a row.  A list  *)
(* of fewer than 64 elements is one run.  The comparator's result is read  *)
(* as 0 when it is NaN.                                                    *)
(***************************************************************************)
\* sortState.Compare(x, y) for the comparator (a, b) => b.score - a.score
compareOpportunities(x, y) ==
    CHOOSE order \in {IF v = NaN THEN Zero(FALSE) ELSE v : v \in {fSub(y.score, x.score)}} : TRUE

\* order < 0
orderedBefore(x, y) == fLess(compareOpportunities(x, y), Zero(FALSE))

\* The loop of CountAndMakeRun from idx on: the length of the run, which ends
\* in front of the first element that is not in the order of the run.
runLengthOf(workArray, idx, isDescending) ==
    The({IF ends = {} THEN Len(workArray)
         ELSE (CHOOSE i \in ends : \A j \in ends : i <= j) - 1 :
            ends \in {{i \in idx..Len(workArray) :
                          orderedBefore(workArray[i], workArray[i - 1]) # isDescending}}})

reverseRange(workArray, runLength) ==
    [k \in 1..Len(workArray) |->
        IF k <= runLength THEN workArray[runLength + 1 - k] ELSE workArray[k]]

\* CountAndMakeRun: the list with the run at its start in order, and the
\* length of the run.
countAndMakeRun(workArray) ==
    IF Len(workArray) < 2 THEN [workArray |-> workArray, runLength |-> Len(workArray)]
    ELSE CHOOSE run \in
             {[workArray |-> IF d[1] THEN reverseRange(workArray, d[2]) ELSE workArray,
               runLength |-> d[2]] :
                 d \in {<<isDescending, runLengthOf(workArray, 3, isDescending)>> :
                           isDescending \in {orderedBefore(workArray[2], workArray[1])}}} : TRUE

\* The binary search of BinaryInsertionSort: the number of elements of
\* sorted that stay in front of pivot.
RECURSIVE insertionPoint(_, _, _, _)
insertionPoint(sorted, pivot, left, right) ==
    IF left >= right THEN left
    ELSE CHOOSE at \in {IF orderedBefore(pivot, sorted[mid + 1])
                        THEN insertionPoint(sorted, pivot, left, mid)
                        ELSE insertionPoint(sorted, pivot, mid + 1, right) :
                           mid \in {left + (right - left) \div 2}} : TRUE

\* Variant: a finding goes in front of those the comparator gives 0 for.
RECURSIVE insertionPointFirst(_, _, _, _)
insertionPointFirst(sorted, pivot, left, right) ==
    IF left >= right THEN left
    ELSE CHOOSE at \in {IF ~orderedBefore(sorted[mid + 1], pivot)
                        THEN insertionPointFirst(sorted, pivot, left, mid)
                        ELSE insertionPointFirst(sorted, pivot, mid + 1, right) :
                           mid \in {left + (right - left) \div 2}} : TRUE

insertOpportunityFirst(sorted, opportunity) ==
    CHOOSE result \in {SubSeq(sorted, 1, left) \o <<opportunity>>
                           \o SubSeq(sorted, left + 1, Len(sorted)) :
                          left \in {insertionPointFirst(sorted, opportunity, 0, Len(sorted))}} : TRUE

\* One round of BinaryInsertionSort: the pivot is put where it belongs.
insertOpportunity(sorted, opportunity) ==
    CHOOSE result \in {SubSeq(sorted, 1, left) \o <<opportunity>>
                           \o SubSeq(sorted, left + 1, Len(sorted)) :
                          left \in {insertionPoint(sorted, opportunity, 0, Len(sorted))}} : TRUE

\* BinaryInsertionSort(low, start, high) on a list whose first start - 1
\* elements are in order: the elements from start to high are put among the
\* elements in front of them, one after the other; the rounds from start to
\* high are the rounds of their first half, then those of their second half.
RECURSIVE binaryInsertionSort(_, _, _)
binaryInsertionSort(workArray, start, high) ==
    IF start > high THEN workArray
    ELSE IF start = high
    THEN insertOpportunity(SubSeq(workArray, 1, start - 1), workArray[start])
             \o SubSeq(workArray, start + 1, Len(workArray))
    ELSE The({binaryInsertionSort(front, (start + high) \div 2 + 1, high) :
                 front \in {binaryInsertionSort(workArray, start, (start + high) \div 2)}})

\* array[index] and array[index] = value, positions counted from 0 as the
\* code counts them.
elementAt(array, index) == array[index + 1]

store(array, index, value) == [array EXCEPT ![index + 1] = value]

\* Copy(source, srcPos, target, dstPos, length): the elements are read
\* before any of them is written.
copyRange(source, srcPos, target, dstPos, length) ==
    SubSeq(target, 1, dstPos) \o SubSeq(source, srcPos + 1, srcPos + length)
        \o SubSeq(target, dstPos + length + 1, Len(target))

\* sortState.Compare as the merges call it: order[x, y] is
\* orderedBefore(x, y) for the elements x and y of the list.
orderOf(opps) ==
    The({[x \in elements, y \in elements |-> orderedBefore(x, y)] :
            elements \in {{opps[k] : k \in 1..Len(opps)}}})

\* ComputeMinRunLength: the length itself below 64, else the top six bits of
\* the length, plus 1 if a lower bit is set.
RECURSIVE computeMinRunLength(_, _)
computeMinRunLength(n, r) ==
    IF n >= 64 THEN computeMinRunLength(n \div 2, IF n % 2 = 1 THEN 1 ELSE r)
    ELSE n + r

\* The galloping loops of GallopLeft, to the right of the hint (sign 1, as
\* long as the element is ordered before the key) and to its left (sign -1,
\* as long as it is not): lastOfs and offset when the loop is left.
RECURSIVE gallopLeftOffsets(_, _, _, _, _, _, _, _)
gallopLeftOffsets(order, array, key, at, sign, maxOfs, lastOfs, offset) ==
    IF /\ offset < maxOfs
       /\ order[elementAt(array, at + sign * offset), key] = (sign = 1)
    THEN gallopLeftOffsets(order, array, key, at, sign, maxOfs, offset, 2 * offset + 1)
    ELSE <<lastOfs, Min(offset, maxOfs)>>

\* The binary search that ends GallopLeft
RECURSIVE gallopLeftSearch(_, _, _, _, _, _)
gallopLeftSearch(order, array, key, base, lastOfs, offset) ==
    IF lastOfs >= offset THEN offset
    ELSE The({IF order[elementAt(array, base + m), key]
              THEN gallopLeftSearch(order, array, key, base, m + 1, offset)
              ELSE gallopLeftSearch(order, array, key, base, lastOfs, m) :
                 m \in {lastOfs + (offset - lastOfs) \div 2}})

\* GallopLeft: where key goes in the run of `length` elements at base, in
\* front of the elements the comparator does not order before it.
gallopLeft(order, array, key, base, length, hint) ==
    IF order[elementAt(array, base + hint), key]
    THEN The({gallopLeftSearch(order, array, key, base, o[1] + hint + 1, o[2] + hint) :
                 o \in {gallopLeftOffsets(order, array, key, base + hint, 1, length - hint, 0, 1)}})
    ELSE The({gallopLeftSearch(order, array, key, base, hint - o[2] + 1, hint - o[1]) :
                 o \in {gallopLeftOffsets(order, array, key, base + hint, 0 - 1, hint + 1, 0, 1)}})

\* The galloping loops of GallopRight, to the left of the hint (sign -1, as
\* long as the key is ordered before the element) and to its right (sign 1,
\* as long as it is not).
RECURSIVE gallopRightOffsets(_, _, _, _, _, _, _, _)
gallopRightOffsets(order, array, key, at, sign, maxOfs, lastOfs, offset) ==
    IF /\ offset < maxOfs
       /\ order[key, elementAt(array, at + sign * offset)] = (sign = 0 - 1)
    THEN gallopRightOffsets(order, array, key, at, sign, maxOfs, offset, 2 * offset + 1)
    ELSE <<lastOfs, Min(offset, maxOfs)>>

\* The binary search that ends GallopRight
RECURSIVE gallopRightSearch(_, _, _, _, _, _)
gallopRightSearch(order, array, key, base, lastOfs, offset) ==
    IF lastOfs >= offset THEN offset
    ELSE The({IF order[key, elementAt(array, base + m)]
              THEN gallopRightSearch(order, array, key, base, lastOfs, m)
              ELSE gallopRightSearch(order, array, key, base, m + 1, offset) :
                 m \in {lastOfs + (offset - lastOfs) \div 2}})

\* GallopRight: where key goes in the run of `length` elements at base,
\* behind the elements it is not ordered before.
gallopRight(order, array, key, base, length, hint) ==
    IF order[key, elementAt(array, base + hint)]
    THEN The({gallopRightSearch(order, array, key, base, hint - o[2] + 1, hint - o[1]) :
                 o \in {gallopRightOffsets(order, array, key, base + hint, 0 - 1, hint + 1, 0, 1)}})
    ELSE The({gallopRightSearch(order, array, key, base, o[1] + hint + 1, o[2] + hint) :
                 o \in {gallopRightOffsets(order, array, key, base + hint, 1, length - hint,
                                           0, 1)}})

(***************************************************************************)
(* MergeLow: run A is copied to tempArray and the two runs are merged from *)
(* the left.  m holds the local variables of the function, the loop it is  *)
(* in ("take", "gallop", or "done" after Succeed and CopyB) and whether    *)
(* the galloping loop is in its first pass.                                *)
(***************************************************************************)
\* workArray[dest++] = workArray[cursorB++]; --lengthB
takeFromB(m) ==
    [m EXCEPT !.workArray = store(@, m.dest, elementAt(m.workArray, m.cursorB)),
              !.dest = @ + 1, !.cursorB = @ + 1, !.lengthB = @ - 1]

\* workArray[dest++] = tempArray[cursorTemp++]; --lengthA
takeFromTempLow(m) ==
    [m EXCEPT !.workArray = store(@, m.dest, elementAt(m.tempArray, m.cursorTemp)),
              !.dest = @ + 1, !.cursorTemp = @ + 1, !.lengthA = @ - 1]

\* label Succeed of MergeLow
succeedLow(m) ==
    [m EXCEPT !.workArray = copyRange(m.tempArray, m.cursorTemp, @, m.dest, m.lengthA),
              !.loop = "done"]

\* label CopyB: the last element of run A goes to the end of the merge.
copyB(m) ==
    [m EXCEPT !.workArray = store(copyRange(@, m.cursorB, @, m.dest, m.lengthB),
                                  m.dest + m.lengthB,
                                  elementAt(m.tempArray, m.cursorTemp)),
              !.loop = "done"]

\* nofWinsA = GallopRight(tempArray, workArray[cursorB], cursorTemp, lengthA, 0)
\* and the copy of that many elements of run A
gallopedALow(m) ==
    The({[m EXCEPT !.nofWinsA = k,
                   !.workArray = copyRange(m.tempArray, m.cursorTemp, @, m.dest, k),
                   !.dest = @ + k, !.cursorTemp = @ + k, !.lengthA = @ - k] :
            k \in {gallopRight(m.order, m.tempArray, elementAt(m.workArray, m.cursorB),
                               m.cursorTemp, m.lengthA, 0)}})

\* nofWinsB = GallopLeft(workArray, tempArray[cursorTemp], cursorB, lengthB, 0)
\* and the copy of that many elements of run B
gallopedBLow(m) ==
    The({[m EXCEPT !.nofWinsB = k,
                   !.workArray = copyRange(@, m.cursorB, @, m.dest, k),
                   !.dest = @ + k, !.cursorB = @ + k, !.lengthB = @ - k] :
            k \in {gallopLeft(m.order, m.workArray, elementAt(m.tempArray, m.cursorTemp),
                              m.cursorB, m.lengthB, 0)}})

\* One pass of the inner loop of MergeLow that takes one element at a time:
\* the loop is left for the galloping loop once a run has won minGallop
\* times in a row.
mergeLowTake(m) ==
    IF m.order[elementAt(m.workArray, m.cursorB), elementAt(m.tempArray, m.cursorTemp)]
    THEN LET n == [takeFromB(m) EXCEPT !.nofWinsB = @ + 1, !.nofWinsA = 0]
         IN  IF n.lengthB = 0 THEN succeedLow(n)
             ELSE IF n.nofWinsB >= n.minGallop
             THEN [n EXCEPT !.minGallop = @ + 1, !.loop = "gallop", !.firstIteration = TRUE]
             ELSE n
    ELSE LET n == [takeFromTempLow(m) EXCEPT !.nofWinsA = @ + 1, !.nofWinsB = 0]
         IN  IF n.lengthA = 1 THEN copyB(n)
             ELSE IF n.nofWinsA >= n.minGallop
             THEN [n EXCEPT !.minGallop = @ + 1, !.loop = "gallop", !.firstIteration = TRUE]
             ELSE n

\* One pass of the galloping loop of MergeLow, which goes on as long as a
\* run wins kMinGallopWins = 7 times or more; when it is left, minGallop
\* goes up by one and the inner loop takes the next element.
mergeLowGallop(m) ==
    IF ~(m.nofWinsA >= 7 \/ m.nofWinsB >= 7 \/ m.firstIteration)
    THEN mergeLowTake([m EXCEPT !.minGallop = @ + 1, !.nofWinsA = 0, !.nofWinsB = 0,
                              !.loop = "take"])
    ELSE The({
        IF a.nofWinsA > 0 /\ a.lengthA = 1 THEN copyB(a)
        ELSE IF a.nofWinsA > 0 /\ a.lengthA = 0 THEN succeedLow(a)
        ELSE The({
            IF b.lengthB = 0 THEN succeedLow(b)
            ELSE The({
                IF c.nofWinsB > 0 /\ c.lengthB = 0 THEN succeedLow(c)
                ELSE The({IF d.lengthA = 1 THEN copyB(d) ELSE d :
                             d \in {takeFromTempLow(c)}}) :
                    c \in {gallopedBLow(b)}}) :
                b \in {takeFromB(a)}}) :
            a \in {gallopedALow([m EXCEPT !.minGallop = Max(1, @ - 1),
                                          !.firstIteration = FALSE])}})

\* The loops of MergeLow, pass by pass, until the merge is done: every pass
\* moves an element, so count passes are enough when count elements are
\* left.
RECURSIVE mergeLowLoop(_, _)
mergeLowLoop(m, count) ==
    IF m.loop = "done" THEN m
    ELSE IF count <= 1
    THEN IF m.loop = "gallop" THEN mergeLowGallop(m) ELSE mergeLowTake(m)
    ELSE LET half == mergeLowLoop(m, count \div 2)
         IN  IF half.loop = "done" THEN half
             ELSE mergeLowLoop(half, count - count \div 2)

mergeLow(sortState, baseA, lengthA, baseB, lengthB) ==
    The({IF m.lengthB = 0 THEN succeedLow(m)
         ELSE IF m.lengthA = 1 THEN copyB(m)
         ELSE mergeLowLoop(m, lengthA + lengthB) :
            m \in {takeFromB([order |-> sortState.order, workArray |-> sortState.workArray,
                              tempArray |-> SubSeq(sortState.workArray, baseA + 1, baseA + lengthA),
                              dest |-> baseA, cursorTemp |-> 0, cursorB |-> baseB,
                              lengthA |-> lengthA, lengthB |-> lengthB,
                              minGallop |-> sortState.minGallop, nofWinsA |-> 0, nofWinsB |-> 0,
                              loop |-> "take", firstIteration |-> FALSE])}})

(***************************************************************************)
(* MergeHigh: run B is copied to tempArray and the two runs are merged     *)
(* from the right.                                                         *)
(***************************************************************************)
\* workArray[dest--] = workArray[cursorA--]; --lengthA
takeFromA(m) ==
    [m EXCEPT !.workArray = store(@, m.dest, elementAt(m.workArray, m.cursorA)),
              !.dest = @ - 1, !.cursorA = @ - 1, !.lengthA = @ - 1]

\* workArray[dest--] = tempArray[cursorTemp--]; --lengthB
takeFromTempHigh(m) ==
    [m EXCEPT !.workArray = store(@, m.dest, elementAt(m.tempArray, m.cursorTemp)),
              !.dest = @ - 1, !.cursorTemp = @ - 1, !.lengthB = @ - 1]

\* label Succeed of MergeHigh
succeedHigh(m) ==
    [m EXCEPT !.workArray = copyRange(m.tempArray, 0, @, m.dest - (m.lengthB - 1),
                                      m.lengthB),
              !.loop = "done"]

\* label CopyA: the first element of run B goes to the front of the merge.
copyA(m) ==
    [m EXCEPT !.workArray = store(copyRange(@, m.cursorA - m.lengthA + 1, @,
                                            m.dest - m.lengthA + 1, m.lengthA),
                                  m.dest - m.lengthA,
                                  elementAt(m.tempArray, m.cursorTemp)),
              !.loop = "done"]

\* k = GallopRight(workArray, tempArray[cursorTemp], baseA, lengthA, lengthA - 1),
\* nofWinsA = lengthA - k and the copy of that many elements of run A
gallopedAHigh(m) ==
    The({[m EXCEPT !.nofWinsA = n,
                   !.workArray = copyRange(@, m.cursorA - n + 1, @, m.dest - n + 1, n),
                   !.dest = @ - n, !.cursorA = @ - n, !.lengthA = @ - n] :
            n \in {m.lengthA - gallopRight(m.order, m.workArray,
                                           elementAt(m.tempArray, m.cursorTemp),
                                           m.baseA, m.lengthA, m.lengthA - 1)}})

\* k = GallopLeft(tempArray, workArray[cursorA], 0, lengthB, lengthB - 1),
\* nofWinsB = lengthB - k and the copy of that many elements of run B
gallopedBHigh(m) ==
    The({[m EXCEPT !.nofWinsB = n,
                   !.workArray = copyRange(m.tempArray, m.cursorTemp - n + 1, @,
                                           m.dest - n + 1, n),
                   !.dest = @ - n, !.cursorTemp = @ - n, !.lengthB = @ - n] :
            n \in {m.lengthB - gallopLeft(m.order, m.tempArray, elementAt(m.workArray, m.cursorA),
                                          0, m.lengthB, m.lengthB - 1)}})

\* One pass of the inner loop of MergeHigh that takes one element at a time
mergeHighTake(m) ==
    IF m.order[elementAt(m.tempArray, m.cursorTemp), elementAt(m.workArray, m.cursorA)]
    THEN LET n == [takeFromA(m) EXCEPT !.nofWinsA = @ + 1, !.nofWinsB = 0]
         IN  IF n.lengthA = 0 THEN succeedHigh(n)
             ELSE IF n.nofWinsA >= n.minGallop
             THEN [n EXCEPT !.minGallop = @ + 1, !.loop = "gallop", !.firstIteration = TRUE]
             ELSE n
    ELSE LET n == [takeFromTempHigh(m) EXCEPT !.nofWinsB = @ + 1, !.nofWinsA = 0]
         IN  IF n.lengthB = 1 THEN copyA(n)
             ELSE IF n.nofWinsB >= n.minGallop
             THEN [n EXCEPT !.minGallop = @ + 1, !.loop = "gallop", !.firstIteration = TRUE]
             ELSE n

\* One pass of the galloping loop of MergeHigh
mergeHighGallop(m) ==
    IF ~(m.nofWinsA >= 7 \/ m.nofWinsB >= 7 \/ m.firstIteration)
    THEN mergeHighTake([m EXCEPT !.minGallop = @ + 1, !.nofWinsA = 0, !.nofWinsB = 0,
                              !.loop = "take"])
    ELSE The({
        IF a.nofWinsA > 0 /\ a.lengthA = 0 THEN succeedHigh(a)
        ELSE The({
            IF b.lengthB = 1 THEN copyA(b)
            ELSE The({
                IF c.nofWinsB > 0 /\ c.lengthB = 1 THEN copyA(c)
                ELSE IF c.nofWinsB > 0 /\ c.lengthB = 0 THEN succeedHigh(c)
                ELSE The({IF d.lengthA = 0 THEN succeedHigh(d) ELSE d :
                             d \in {takeFromA(c)}}) :
                    c \in {gallopedBHigh(b)}}) :
                b \in {takeFromTempHigh(a)}}) :
            a \in {gallopedAHigh([m EXCEPT !.minGallop = Max(1, @ - 1),
                                           !.firstIteration = FALSE])}})

\* The loops of MergeHigh, pass by pass, until the merge is done
RECURSIVE mergeHighLoop(_, _)
mergeHighLoop(m, count) ==
    IF m.loop = "done" THEN m
    ELSE IF count <= 1
    THEN IF m.loop = "gallop" THEN mergeHighGallop(m) ELSE mergeHighTake(m)
    ELSE LET half == mergeHighLoop(m, count \div 2)
         IN  IF half.loop = "done" THEN half
             ELSE mergeHighLoop(half, count - count \div 2)

mergeHigh(sortState, baseA, lengthA, baseB, lengthB) ==
    The({IF m.lengthA = 0 THEN succeedHigh(m)
         ELSE IF m.lengthB = 1 THEN copyA(m)
         ELSE mergeHighLoop(m, lengthA + lengthB) :
            m \in {takeFromA([order |-> sortState.order, workArray |-> sortState.workArray,
                              tempArray |-> SubSeq(sortState.workArray, baseB + 1, baseB + lengthB),
                              dest |-> baseB + lengthB - 1, cursorTemp |-> lengthB - 1,
                              cursorA |-> baseA + lengthA - 1, baseA |-> baseA,
                              lengthA |-> lengthA, lengthB |-> lengthB,
                              minGallop |-> sortState.minGallop, nofWinsA |-> 0, nofWinsB |-> 0,
                              loop |-> "take", firstIteration |-> FALSE])}})

(***************************************************************************)
(* The stack of pending runs.  sortState holds the comparison (order),     *)
(* workArray, pendingRuns (the base and the length of each run, run n of   *)
(* the code at place n + 1) and minGallop.                                 *)
(***************************************************************************)
\* The two runs merged in place: what MergeAt does once the elements of A
\* that stay in front and the elements of B that stay behind are left out.
mergedRuns(sortState, baseA, lengthA, baseB, lengthB) ==
    The({[sortState EXCEPT !.workArray = m.workArray, !.minGallop = m.minGallop] :
            m \in {IF lengthA <= lengthB
                   THEN mergeLow(sortState, baseA, lengthA, baseB, lengthB)
                   ELSE mergeHigh(sortState, baseA, lengthA, baseB, lengthB)}})

\* MergeAt(i): the runs i and i + 1 of the stack become one.
mergeAt(sortState, i) ==
    The({The({The({IF baseA[2] = 0 THEN s
                   ELSE The({IF lengthB = 0 THEN s
                             ELSE mergedRuns(s, baseA[1], baseA[2], pending[2].base, lengthB) :
                                lengthB \in {gallopLeft(s.order, s.workArray,
                                                        elementAt(s.workArray,
                                                                  baseA[1] + baseA[2] - 1),
                                                        pending[2].base, pending[2].length,
                                                        pending[2].length - 1)}}) :
                      baseA \in {The({<<pending[1].base + k, pending[1].length - k>> :
                                         k \in {gallopRight(s.order, s.workArray,
                                                            elementAt(s.workArray,
                                                                      pending[2].base),
                                                            pending[1].base, pending[1].length,
                                                            0)}})}}) :
                 s \in {[sortState EXCEPT !.pendingRuns =
                            SubSeq(@, 1, i)
                                \o <<[base |-> pending[1].base,
                                      length |-> pending[1].length + pending[2].length]>>
                                \o SubSeq(@, i + 3, Len(@))]}}) :
            pending \in {<<sortState.pendingRuns[i + 1], sortState.pendingRuns[i + 2]>>}})

\* RunInvariantEstablished(pendingRuns, n)
runInvariantEstablished(pendingRuns, n) ==
    n < 2 \/ pendingRuns[n - 1].length > pendingRuns[n].length + pendingRuns[n + 1].length

\* MergeCollapse: runs are merged until the lengths on the stack decrease
\* fast enough.
RECURSIVE mergeCollapse(_)
mergeCollapse(sortState) ==
    IF Len(sortState.pendingRuns) <= 1 THEN sortState
    ELSE The({IF \/ ~runInvariantEstablished(pending, n + 1)
                 \/ ~runInvariantEstablished(pending, n)
              THEN mergeCollapse(mergeAt(sortState,
                                         IF pending[n].length < pending[n + 2].length
                                         THEN n - 1 ELSE n))
              ELSE IF pending[n + 1].length <= pending[n + 2].length
              THEN mergeCollapse(mergeAt(sortState, n))
              ELSE sortState :
                 n \in {Len(sortState.pendingRuns) - 2}, pending \in {sortState.pendingRuns}})

\* MergeForceCollapse: the runs left on the stack are merged into one.
RECURSIVE mergeForceCollapse(_)
mergeForceCollapse(sortState) ==
    IF Len(sortState.pendingRuns) <= 1 THEN sortState
    ELSE The({mergeForceCollapse(mergeAt(sortState,
                                         IF n > 0 /\ pending[n].length < pending[n + 2].length
                                         THEN n - 1 ELSE n)) :
                 n \in {Len(sortState.pendingRuns) - 2}, pending \in {sortState.pendingRuns}})

\* CountAndMakeRun on the elements from low on and, when the run is shorter
\* than minRunLength, BinaryInsertionSort up to min(minRunLength, remaining):
\* these elements with the next run in order, and the length of that run.
nextRun(rest, minRunLength) ==
    The({IF run.runLength >= minRunLength THEN run
         ELSE The({[workArray |-> binaryInsertionSort(run.workArray, run.runLength + 1,
                                                      forcedRunLength),
                    runLength |-> forcedRunLength] :
                      forcedRunLength \in {Min(minRunLength, Len(rest))}}) :
            run \in {countAndMakeRun(rest)}})

\* The loop of ArrayTimSortImpl: the next run is made, pushed on the stack
\* and merged with the runs before it where the stack asks for it.
RECURSIVE arrayTimSort(_, _, _)
arrayTimSort(sortState, low, minRunLength) ==
    IF low = Len(sortState.workArray) THEN mergeForceCollapse(sortState)
    ELSE The({arrayTimSort(
                  mergeCollapse([sortState EXCEPT
                      !.workArray = SubSeq(@, 1, low) \o run.workArray,
                      !.pendingRuns = Append(@, [base |-> low, length |-> run.runLength])]),
                  low + run.runLength, minRunLength) :
                 run \in {nextRun(SubSeq(sortState.workArray, low + 1,
                                         Len(sortState.workArray)), minRunLength)}})

\* [...opportunities].sort(...): kMinGallopWins = 7 is where minGallop starts.
rankOpportunities(opps) ==
    IF Len(opps) < 2 THEN opps
    ELSE arrayTimSort([order |-> orderOf(opps), workArray |-> opps, pendingRuns |-> <<>>,
                       minGallop |-> 7],
                      0, computeMinRunLength(Len(opps), 0)).workArray

(***************************************************************************)
(* Inputs.                                                                 *)
(***************************************************************************)
MaxMarkets == 3
MaxCandidates == 3

Venues == {"polymarket", "kalshi", "manifold"}

\* The titles of the batches the whole pipeline runs on.
BatchTitles ==
    {"BTC above $100K in 2025?",
     "Will BTC hit 100k in 2025",
     "ETH above 100k in 2025?",
     "ETH above 100k in 2026?"}

Categories == {"Crypto", "Economics"}
EndDates == {"2025-12-31", "2026-12-31"}
OutcomeSets ==
    {<<[name |-> "Yes", price |-> 62], [name |-> "No", price |-> 38]>>,
     <<[name |-> "Above", price |-> 55], [name |-> "Below", price |-> 45]>>}

\* What a market carries besides its id, venue and title.
Details == [category : Categories, endDate : EndDates, outcomes : OutcomeSets]

DefaultDetails ==
    [category |-> "Crypto", endDate |-> "2025-12-31",
     outcomes |-> <<[name |-> "Yes", price |-> 62], [name |-> "No", price |-> 38]>>]

\* The default, and the details that differ from it in one field.
DetailChoices ==
    {d \in Details :
        Cardinality({f \in {"category", "endDate", "outcomes"} : d[f] # DefaultDetails[f]}) <= 1}

Market(id, venueId, title, d) ==
    [id |-> id, venueId |-> venueId, title |-> title, category |-> d.category,
     endDate |-> d.endDate, outcomes |-> d.outcomes]

MarketId(i) == "m" \o ToString(i)

MinScores == {DefaultMinScore, 70}

NoCall == [market1 |-> NULL, market2 |-> NULL, result |-> NULL]

\* No group handed to the detectors, no findings, no call returned.
NoResult == [fn |-> "none", result |-> NULL]

NoDetection == groupIn = NULL /\ opportunities = <<>> /\ det = NoResult

\* No table has a row, no request was made, no environment variable is set.
EmptyDb == [venues |-> {}, markets |-> <<>>, groups |-> <<>>, opportunities |-> <<>>,
            syncLogs |-> <<>>]

NoEnv == [DEMO_MODE |-> "", CRON_SECRET |-> "", DOMEAPI_KEY |-> ""]

NoSync == db = EmptyDb /\ runs = <<>> /\ admin = <<>> /\ env = NoEnv /\ now = 0 /\ decayed = NULL

Idle(ms) ==
    /\ markets = ms
    /\ call = NoCall
    /\ matches = <<>>
    /\ minScore = DefaultMinScore
    /\ groups = <<>>
    /\ pc = "input"
    /\ NoDetection
    /\ NoSync

(***************************************************************************)
(* Operations.                                                             *)
(***************************************************************************)
CalculateMatchScore(i, j) ==
    /\ pc = "input"
    /\ call' = [market1 |-> markets[i], market2 |-> markets[j],
                result |-> calculateMatchScore(markets[i], markets[j])]
    /\ pc' = "scored"
    /\ UNCHANGED <<markets, matches, minScore, groups, groupIn, opportunities, det, syncVars>>

FindAllMatches ==
    /\ pc = "input"
    /\ matches' = findAllMatches(markets)
    /\ pc' = "matched"
    /\ UNCHANGED <<markets, call, minScore, groups, groupIn, opportunities, det, syncVars>>

GroupMatches(min) ==
    /\ pc = "matched"
    /\ minScore' = min
    /\ groups' = groupMatches(markets, matches, min)
    /\ pc' = "grouped"
    /\ UNCHANGED <<markets, call, matches, groupIn, opportunities, det, syncVars>>

(***************************************************************************)
(* Spec: a batch of markets goes through findAllMatches and groupMatches,  *)
(* as in runMatching.                                                      *)
(***************************************************************************)
Batches ==
    UNION {[1..n -> Venues \X BatchTitles] : n \in 0..MaxMarkets}

Init ==
    \E b \in Batches :
        Idle([i \in 1..Len(b) |-> Market(MarketId(i), b[i][1], b[i][2], DefaultDetails)])

Next ==
    \/ FindAllMatches
    \/ \E min \in MinScores : GroupMatches(min)

Spec == Init /\ [][Next]_vars

(***************************************************************************)
(* SpecScore: calculateMatchScore on two markets, in both orders.          *)
(***************************************************************************)
ScoreVenues == {"polymarket", "kalshi"}

InitScore ==
    \E v1 \in ScoreVenues, v2 \in ScoreVenues, t1 \in Titles, t2 \in Titles,
       d1 \in DetailChoices, d2 \in DetailChoices :
        Idle(<<Market(MarketId(1), v1, t1, d1), Market(MarketId(2), v2, t2, d2)>>)

NextScore == \E i \in 1..Len(markets), j \in 1..Len(markets) : CalculateMatchScore(i, j)

SpecScore == InitScore /\ [][NextScore]_vars

(***************************************************************************)
(* SpecGroup: groupMatches on a candidate list the caller made up, in any  *)
(* order: four markets of three venues, candidates between markets of      *)
(* different venues.                                                       *)
(***************************************************************************)
SampleMarkets ==
    <<Market(MarketId(1), "polymarket", "BTC above $100K in 2025?", DefaultDetails),
      Market(MarketId(2), "kalshi", "Will BTC hit 100k in 2025", DefaultDetails),
      Market(MarketId(3), "manifold", "ETH above 100k in 2025?", DefaultDetails),
      Market(MarketId(4), "polymarket", "ETH above 100k in 2026?", DefaultDetails)>>

CandidateScores == {60, 90}

CandidatePool ==
    {[market1 |-> SampleMarkets[i], market2 |-> SampleMarkets[j],
      score |-> fromInt(sc), reasons |-> <<"Title similarity">>] :
        i \in 1..Len(SampleMarkets), j \in 1..Len(SampleMarkets), sc \in CandidateScores}

CandidateLists ==
    UNION {[1..n -> {c \in CandidatePool : c.market1.venueId # c.market2.venueId}] :
              n \in 0..MaxCandidates}

InitGroup ==
    \E cs \in CandidateLists :
        /\ markets = SampleMarkets
        /\ call = NoCall
        /\ matches = cs
        /\ minScore = DefaultMinScore
        /\ groups = <<>>
        /\ pc = "matched"
        /\ NoDetection
        /\ NoSync

NextGroup == \E min \in MinScores : GroupMatches(min)

SpecGroup == InitGroup /\ [][NextGroup]_vars

(***************************************************************************)
(* SpecDetect: a group of markets is handed to one of the detectors, to    *)
(* matchOutcomes, to generateCanonicalTitle or to detectOpportunities,     *)
(* whose findings are then ranked.                                         *)
(***************************************************************************)
MaxGroupMarkets == 3

VenueName(venueId) ==
    IF venueId = "polymarket" THEN "Polymarket"
    ELSE IF venueId = "kalshi" THEN "Kalshi"
    ELSE "Manifold"

Outcome(name, hundredths) == [name |-> name, price |-> Price(hundredths)]

PricedMarket(id, venueId, title, volume, outcomes) ==
    [id |-> id, venueId |-> venueId,
     venue |-> [id |-> venueId, name |-> VenueName(venueId)],
     title |-> title, url |-> "", volume |-> volume, liquidity |-> NULL,
     outcomes |-> outcomes]

YesNo(yes, no) == <<Outcome("Yes", yes), Outcome("No", no)>>

\* The markets a group is made of.
GroupMarkets ==
    {PricedMarket("p1", "polymarket", "BTC above $100K in 2025?", Some(1000), YesNo(45, 55)),
     PricedMarket("k1", "kalshi", "Will BTC hit 100k in 2025", Some(3000), YesNo(46, 48)),
     PricedMarket("f1", "manifold", "Bitcoin 100k by 2025", NULL, YesNo(50, 51)),
     PricedMarket("p2", "polymarket", "BTC 100k this year", Some(0), YesNo(50, 50)),
     PricedMarket("k2", "kalshi", "BTC at 100K", Some(500),
                  <<Outcome("YES", 51), Outcome("NO", 52)>>),
     PricedMarket("p3", "polymarket", "First company to $5 trillion", Some(2000),
                  <<Outcome("Apple", 35), Outcome("Microsoft", 28), Outcome("Nvidia", 42)>>),
     PricedMarket("k3", "kalshi", "First company to $5 trillion valuation", Some(920000),
                  <<Outcome("Apple", 38), Outcome("Microsoft", 31), Outcome("Nvidia", 29)>>),
     PricedMarket("f2", "manifold", "Fed rate in Q1 2026", Some(100),
                  <<Outcome("<5%", 30), Outcome(">5%", 70)>>),
     PricedMarket("k4", "kalshi", "Fed decision", NULL, <<>>),
     PricedMarket("f3", "manifold", "BTC above 100k by December", Some(10), YesNo(0, 100))}

\* The liquidity of the first market, per market of the group; the other
\* markets have none.
LiquidityShares == {0, 33, 9999999}

\* The lists of k different markets.
RECURSIVE ListsOf(_)
ListsOf(k) ==
    IF k = 0 THEN {<<>>}
    ELSE {Append(ms, m) : ms \in ListsOf(k - 1), m \in GroupMarkets} \cap
         {ms \in Seq(GroupMarkets) : \A i, j \in 1..Len(ms) : i # j => ms[i] # ms[j]}

GroupOf(ms, share) ==
    [id |-> "g1",
     markets |-> [i \in 1..Len(ms) |->
                     [ms[i] EXCEPT !.liquidity = IF i = 1 THEN Some(share * Len(ms)) ELSE NULL,
                                   !.url = IF i = 1 THEN "https://example.com/" \o ms[i].id
                                           ELSE ""]]]

GroupLists == UNION {ListsOf(k) : k \in 0..MaxGroupMarkets}

InitDetect ==
    \E ms \in GroupLists : \E share \in LiquidityShares :
        /\ markets = <<>>
        /\ call = NoCall
        /\ matches = <<>>
        /\ minScore = DefaultMinScore
        /\ groups = <<>>
        /\ pc = "group"
        /\ groupIn = GroupOf(ms, share)
        /\ opportunities = <<>>
        /\ det = NoResult
        /\ NoSync

Returns(fn, result) ==
    /\ pc = "group"
    /\ det' = [fn |-> fn, result |-> result]
    /\ pc' = "returned"
    /\ UNCHANGED <<markets, call, matches, minScore, groups, groupIn, opportunities, syncVars>>

MatchOutcomes == Returns("matchOutcomes", matchOutcomes(groupIn.markets))

DetectCrossVenueDivergence ==
    Returns("detectCrossVenueDivergence", detectCrossVenueDivergence(groupIn))

DetectInternalSanity == Returns("detectInternalSanity", detectInternalSanity(groupIn))

DetectArbitrage == Returns("detectArbitrage", detectArbitrage(groupIn))

GenerateCanonicalTitle ==
    Returns("generateCanonicalTitle", generateCanonicalTitle(groupIn.markets))

DetectOpportunities ==
    /\ pc = "group"
    /\ opportunities' = detectOpportunities(groupIn)
    /\ det' = [fn |-> "detectOpportunities", result |-> opportunities']
    /\ pc' = "detected"
    /\ UNCHANGED <<markets, call, matches, minScore, groups, groupIn, syncVars>>

RankOpportunities ==
    /\ pc \in {"detected", "findings"}
    /\ det' = [fn |-> "rankOpportunities", result |-> rankOpportunities(opportunities)]
    /\ pc' = "ranked"
    /\ UNCHANGED <<markets, call, matches, minScore, groups, groupIn, opportunities, syncVars>>

NextDetect ==
    \/ MatchOutcomes
    \/ DetectCrossVenueDivergence
    \/ DetectInternalSanity
    \/ DetectArbitrage
    \/ GenerateCanonicalTitle
    \/ DetectOpportunities
    \/ RankOpportunities

SpecDetect == InitDetect /\ [][NextDetect]_vars

(***************************************************************************)
(* SpecRank: rankOpportunities on a list of findings in any order.         *)
(***************************************************************************)
MaxFindings == 3

\* 59.99999999999999 is the double next below 60.  A score is a number of
\* JavaScript, NaN among them.
RankedScores ==
    {fromInt(40), fSub(fromInt(60), scaled(One, 0 - 47)), fromInt(60),
     fDiv(fromInt(185), Two), Infinity, NaN}

Finding(groupId, score) ==
    [groupId |-> groupId, type |-> "internal_sanity", score |-> score,
     spread |-> Price(5), description |-> "", details |-> [type |-> "internal_sanity",
     sanityIssues |-> <<>>], avgLiquidity |-> fromInt(0)]

ShortFindingLists ==
    UNION {[1..n -> {Finding(g, sc) : g \in {"g1", "g2"}, sc \in RankedScores}] :
              n \in 0..MaxFindings}

\* Lists long enough for the sort to cut them into runs and merge the runs:
\* LongFindings and LongFindings + 1 findings, each of its own group, whose
\* scores go through a cycle of scores, each score of the cycle held for one
\* finding or for a block of findings.
LongFindings == 64

ScoreCycles ==
    {<<NaN, fromInt(40), fromInt(60), fDiv(fromInt(185), Two)>>,
     <<fromInt(60), NaN, fDiv(fromInt(185), Two)>>,
     <<fromInt(40), NaN, Infinity, fromInt(60)>>,
     <<fromInt(40), fromInt(60), fDiv(fromInt(185), Two)>>,
     <<Infinity, fromInt(60), fDiv(fromInt(185), Two), fromInt(40)>>,
     <<fromInt(60), fSub(fromInt(60), scaled(One, 0 - 47)), fromInt(60), fromInt(40),
       Infinity>>}

BlockLengths == {1, 3, LongFindings \div 4}

LongFindingLists ==
    {[k \in 1..n |-> Finding("g" \o ToString(k),
                             cycle[(((k - 1) \div block) % Len(cycle)) + 1])] :
        n \in {LongFindings, LongFindings + 1}, cycle \in ScoreCycles,
        block \in BlockLengths}

FindingLists == ShortFindingLists \cup LongFindingLists

InitRank ==
    \E fs \in FindingLists :
        /\ markets = <<>>
        /\ call = NoCall
        /\ matches = <<>>
        /\ minScore = DefaultMinScore
        /\ groups = <<>>
        /\ pc = "findings"
        /\ groupIn = NULL
        /\ opportunities = fs
        /\ det = NoResult
        /\ NoSync

NextRank == RankOpportunities

SpecRank == InitRank /\ [][NextRank]_vars

(***************************************************************************)
(* Properties.  They are stated on the state alone: the candidates at or   *)
(* above minScore, the pairs of ids they join and the members of a group   *)
(* are read from matches, minScore and groups.                             *)
(***************************************************************************)
Range(seq) == {seq[k] : k \in 1..Len(seq)}

Eligible == SelectSeq(matches, LAMBDA m : fAtLeast(m.score, fromInt(minScore)))

PairOf(m) == {m.market1.id, m.market2.id}

Pairs(seq) == {PairOf(seq[k]) : k \in 1..Len(seq)}

MemberIds(g) == {g.members[i].id : i \in 1..Len(g.members)}

MarketIds == {markets[i].id : i \in 1..Len(markets)}

SameGroup(a, b) == \E g \in Range(groups) : {a, b} \subseteq MemberIds(g)

Grouped(a) == \E g \in Range(groups) : a \in MemberIds(g)

\* C1: groupMatches never places the same market id in two groups: the
\* member sets of the returned groups are pairwise disjoint, for every
\* candidate list and every minScore.
C1_GroupsDisjoint ==
    pc = "grouped" =>
        \A g1, g2 \in 1..Len(groups) :
            g1 # g2 => MemberIds(groups[g1]) \cap MemberIds(groups[g2]) = {}

\* Two groups were formed and a third eligible candidate was passed over.
C1_Witness ==
    /\ pc = "grouped"
    /\ Len(groups) = 2
    /\ Len(Eligible) = 3
    /\ \E k \in 1..Len(Eligible) :
          \A g \in Range(groups) : MemberIds(g) # PairOf(Eligible[k])

\* The candidate a group was formed from: the first eligible candidate of the
\* list that joins the group's two members.
FormedFrom(g) ==
    Eligible[CHOOSE k \in 1..Len(Eligible) :
                /\ <<Eligible[k].market1, Eligible[k].market2>> = g.members
                /\ \A j \in 1..(k - 1) :
                      <<Eligible[j].market1, Eligible[j].market2>> # g.members]

\* C2: greedy optimality in whatever order the list is given: an eligible
\* candidate that is not turned into a group has one of its markets in a
\* group formed from a candidate whose score is at least its own.
C2_GreedyOptimalAnyOrder ==
    pc = "grouped" =>
        \A k \in 1..Len(Eligible) :
            (\A g \in Range(groups) :
                g.members # <<Eligible[k].market1, Eligible[k].market2>>)
            => \E g \in Range(groups) :
                  /\ MemberIds(g) \cap PairOf(Eligible[k]) # {}
                  /\ fAtLeast(FormedFrom(g).score, Eligible[k].score)

\* C3: calculateMatchScore returns null whenever both markets have the same
\* venueId, whatever their titles; every candidate of findAllMatches joins
\* two markets of different venues.
C3_SameVenueNeverMatched ==
    /\ \A i, j \in 1..Len(markets) :
          markets[i].venueId = markets[j].venueId
          => calculateMatchScore(markets[i], markets[j]) = NULL
    /\ \A m \in Range(matches) : m.market1.venueId # m.market2.venueId

\* Two markets of one venue carry the same title, next to a candidate found.
C3_Witness ==
    /\ pc = "matched"
    /\ matches # <<>>
    /\ \E i, j \in 1..Len(markets) :
          /\ i # j
          /\ markets[i].venueId = markets[j].venueId
          /\ markets[i].title = markets[j].title

\* C4: calculateMatchScore(A, B) and calculateMatchScore(B, A) are both null
\* or both candidates with the same score.
C4_Symmetric ==
    pc = "scored" =>
        \A r \in {calculateMatchScore(call.market2, call.market1)} :
            /\ (call.result = NULL) <=> (r = NULL)
            /\ call.result # NULL => call.result.score = r.score

\* A candidate for two different titles, one of them without any entity.
C4_Witness ==
    /\ pc = "scored"
    /\ call.result # NULL
    /\ call.market1.title # call.market2.title
    /\ extractEntities(call.market1.title) # {}
    /\ extractEntities(call.market2.title) = {}

\* C5: every group of groupMatches run on the candidates of findAllMatches
\* has exactly two markets, of distinct ids and different venues.
C5_PipelineGroupsArePairs ==
    pc = "grouped" =>
        \A g \in Range(groups) :
            /\ Len(g.members) = 2
            /\ g.members[1].id # g.members[2].id
            /\ g.members[1].venueId # g.members[2].venueId

\* A group was formed in a batch of three markets two of which share a venue.
C5_Witness ==
    /\ pc = "grouped"
    /\ groups # <<>>
    /\ Len(markets) = 3
    /\ \E i, j \in 1..Len(markets) : i # j /\ markets[i].venueId = markets[j].venueId

\* Markets a, b, c of three venues, eligible candidates a-b and b-c, no
\* candidate a-c, and no eligible candidate that leaves the three.
Chain(a, b, c) ==
    /\ Cardinality({a, b, c}) = 3
    /\ Cardinality({m.venueId : m \in {x \in Range(markets) : x.id \in {a, b, c}}}) = 3
    /\ {a, b} \in Pairs(Eligible)
    /\ {b, c} \in Pairs(Eligible)
    /\ {a, c} \notin Pairs(matches)
    /\ \A p \in Pairs(Eligible) : p \subseteq {a, b, c}

\* C6: with candidates a-b and b-c at or above the threshold and no a-c
\* candidate, groupMatches returns exactly one group, the two markets of the
\* candidate that comes first in the sorted list; the third market is in no
\* group and no group has three markets.
C6_ChainGivesOnePair ==
    pc = "grouped" =>
        \A a, b, c \in MarketIds :
            Chain(a, b, c) =>
                /\ Len(groups) = 1
                /\ groups[1].members = <<Eligible[1].market1, Eligible[1].market2>>
                /\ \A g \in Range(groups) : Len(g.members) = 2
                /\ \E x \in {a, b, c} : x \notin PairOf(Eligible[1]) /\ ~Grouped(x)

\* A chain was grouped: one pair, the third market left alone.
C6_Witness ==
    /\ pc = "grouped"
    /\ Len(groups) = 1
    /\ \E a, b, c \in MarketIds : Chain(a, b, c) /\ ~Grouped(c)

\* The markets joined to the markets of S by eligible candidates, repeated.
RECURSIVE Component(_)
Component(S) ==
    IF \E p \in Pairs(Eligible) : p \cap S # {} /\ ~(p \subseteq S)
    THEN Component(S \cup UNION {p \in Pairs(Eligible) : p \cap S # {}})
    ELSE S

\* C7 as documented: two markets connected by a chain of candidates at or
\* above the threshold end up in the same group.
C7_ConnectedComponents ==
    pc = "grouped" =>
        \A a, b \in MarketIds : b \in Component({a}) => a = b \/ SameGroup(a, b)

\* C7: groups are greedy pairs, not connected components: every group is
\* the two markets of one candidate at or above the threshold, so two
\* markets share a group only if such a candidate joins them directly.
C7_GreedyPairs ==
    pc = "grouped" =>
        /\ \A g \in Range(groups) :
              \E m \in Range(Eligible) : g.members = <<m.market1, m.market2>>
        /\ \A a, b \in MarketIds :
              a # b /\ SameGroup(a, b) => {a, b} \in Pairs(Eligible)

\* Two markets connected by candidates are left in different groups.
C7_Witness ==
    /\ pc = "grouped"
    /\ groups # <<>>
    /\ \E a, b \in MarketIds : b \in Component({a}) /\ a # b /\ ~SameGroup(a, b)

(***************************************************************************)
(* The parts of the score of the pair last handed to calculateMatchScore,  *)
(* recomputed from the two titles.                                         *)
(***************************************************************************)
CallSimilarity ==
    stringSimilarity(normalizeText(call.market1.title), normalizeText(call.market2.title))

CallShared == extractEntities(call.market1.title) \cap extractEntities(call.market2.title)

CallYearBonus ==
    IF yearMatches[normalizeText(call.market1.title)]
           \cap yearMatches[normalizeText(call.market2.title)] # {}
    THEN 10 ELSE 0

\* The sum the code forms, term by term, each sum rounded to a double.
CallTotal ==
    fAdd(fAdd(fMul(CallSimilarity, fromInt(50)), fromInt(Min(10 * Cardinality(CallShared), 30))),
         fromInt(CallYearBonus))

CallScored == pc = "scored" /\ call.market1.venueId # call.market2.venueId

\* C8: with title similarity at least 0.5, a pair is rejected when both
\* titles yield an entity and the two entity sets are disjoint; when a title
\* yields no entity the pair is rejected only by the similarity floor or by
\* the final score gate.
C8_EntityGate ==
    CallScored =>
        /\ (/\ fAtLeast(CallSimilarity, Half)
            /\ extractEntities(call.market1.title) # {}
            /\ extractEntities(call.market2.title) # {}
            /\ CallShared = {})
           => call.result = NULL
        /\ (extractEntities(call.market1.title) = {} \/ extractEntities(call.market2.title) = {})
           => ((call.result = NULL)
                <=> (fLess(CallSimilarity, Half) \/ fLess(CallTotal, fromInt(55))))

\* Disjoint entities reject a pair that passes the floor and, with its
\* shared year, would pass the final gate.
C8_Witness ==
    /\ CallScored
    /\ fAtLeast(CallSimilarity, Half)
    /\ extractEntities(call.market1.title) # {}
    /\ extractEntities(call.market2.title) # {}
    /\ CallShared = {}
    /\ fAtLeast(CallTotal, fromInt(55))
    /\ call.result = NULL

\* C9: a returned candidate has a score of at least 55 and at most 100,
\* equal to similarity*50 (similarity in [0.5, 1]) + min(10*|shared
\* entities|, 30) + 10 for a shared year; a pair whose total is below 55
\* yields null.
C9_ScoreFormula ==
    CallScored =>
        /\ call.result # NULL =>
              /\ fAtLeast(call.result.score, fromInt(55))
              /\ fAtLeast(fromInt(100), call.result.score)
              /\ fAtLeast(CallSimilarity, Half)
              /\ fAtLeast(One, CallSimilarity)
              /\ call.result.score = CallTotal
        /\ fLess(CallTotal, fromInt(55)) => call.result = NULL

\* A candidate whose score has all three parts and is not a whole number.
C9_Witness ==
    /\ CallScored
    /\ call.result # NULL
    /\ call.result.score.e < 0
    /\ CallShared # {}
    /\ CallYearBonus = 10

\* C10 as documented: category, end date and outcome set are signals of the
\* score, so for a scored pair some other category, end date or outcome set
\* of the second market gives another result.
C10_DetailsAreSignals ==
    (CallScored /\ call.result # NULL) =>
        \E d \in Details :
            \E r \in {calculateMatchScore(call.market1,
                         Market(call.market2.id, call.market2.venueId,
                                call.market2.title, d))} :
                r = NULL \/ r.score # call.result.score

(***************************************************************************)
(* Detection properties.  They are stated on the group handed in (groupIn) *)
(* and on what the call returned (det).                                    *)
(***************************************************************************)
Returned(fn) == pc = "returned" /\ det.fn = fn

GroupIds == {groupIn.markets[i].id : i \in 1..Len(groupIn.markets)}

MarketOf(id) == CHOOSE m \in Range(groupIn.markets) : m.id = id

\* The sum of a market's outcome prices, as the double the code holds.
SumOf(id) == outcomeSumOf(MarketOf(id).outcomes)

\* A double strictly above n hundredths.
Above(x, n) == x.c > n \/ (x.c = n /\ x.e > 0)

\* |sum - 1| > 0.03
OutOfTolerance(sum) == Above(dSub(sum, Whole(1)), 3) \/ Above(dSub(Whole(1), sum), 3)

StartsWith(text, prefix) ==
    Len(text) >= Len(prefix) /\ SubSeq(text, 1, Len(prefix)) = prefix

IssuesOf(result) == IF result = NULL THEN <<>> ELSE result.details.sanityIssues

\* C11: detectInternalSanity lists exactly the markets of the group whose
\* outcome prices sum to more than 0.03 away from 1, once each and in group
\* order, whatever the number of outcomes; the issue carries the sum and says
\* "exceeds" when the sum is above 1 and "below" otherwise; a finding is
\* returned iff some market is listed.
C11_SanityFlags ==
    Returned("detectInternalSanity") =>
        LET issues == IssuesOf(det.result)
            out == SelectSeq(groupIn.markets,
                             LAMBDA m : OutOfTolerance(outcomeSumOf(m.outcomes)))
        IN /\ (det.result # NULL) <=> (out # <<>>)
           /\ Len(issues) = Len(out)
           /\ \A k \in 1..Len(issues) :
                 /\ issues[k].marketId = out[k].id
                 /\ issues[k].outcomeSum = SumOf(out[k].id)
                 /\ IF Above(issues[k].outcomeSum, 100)
                    THEN StartsWith(issues[k].issue, "Outcome prices exceeds 100%")
                    ELSE StartsWith(issues[k].issue, "Outcome prices below 100%")

\* Prices 0.35, 0.28, 0.42 are flagged "exceeds" with sum 1.05, next to a
\* binary market flagged "below" and a market that is not flagged.
C11_Witness ==
    /\ Returned("detectInternalSanity")
    /\ det.result # NULL
    /\ \E k \in 1..Len(det.result.details.sanityIssues) :
           /\ det.result.details.sanityIssues[k].marketId = "p3"
           /\ det.result.details.sanityIssues[k].outcomeSum = Price(105)
           /\ det.result.details.sanityIssues[k].issue = "Outcome prices exceeds 100%: 105.0%"
    /\ \E k \in 1..Len(det.result.details.sanityIssues) :
           /\ Len(MarketOf(det.result.details.sanityIssues[k].marketId).outcomes) = 2
           /\ StartsWith(det.result.details.sanityIssues[k].issue, "Outcome prices below")
    /\ Len(det.result.details.sanityIssues) < Len(groupIn.markets)


Listed(result, id) ==
    \E k \in 1..Len(IssuesOf(result)) : IssuesOf(result)[k].marketId = id

ListedBelow(result, id) ==
    \E k \in 1..Len(IssuesOf(result)) :
        /\ IssuesOf(result)[k].marketId = id
        /\ StartsWith(IssuesOf(result)[k].issue, "Outcome prices below")

\* C12 as documented: a market whose outcome prices sum to 0.98 is listed by
\* detectInternalSanity with direction "below".
C12_Sum098FlaggedBelow ==
    Returned("detectInternalSanity") =>
        \A id \in GroupIds : SumOf(id).c = 98 => ListedBelow(det.result, id)

\* C12: a market whose outcome prices sum to 0.98 is within the tolerance and
\* is not listed by detectInternalSanity; a market listed "below" has a sum
\* more than 0.03 under 1.
C12_Sum098NotFlagged ==
    Returned("detectInternalSanity") =>
        \A id \in GroupIds :
            /\ SumOf(id).c = 98 => ~Listed(det.result, id)
            /\ ListedBelow(det.result, id) => Above(dSub(Whole(1), SumOf(id)), 3)

\* A finding that lists 0.46/0.48 (sum 0.94) "below" and leaves out
\* 0.38/0.31/0.29 (sum 0.98).
C12_Witness ==
    /\ Returned("detectInternalSanity")
    /\ det.result # NULL
    /\ "k3" \in GroupIds
    /\ SumOf("k3") = Price(98)
    /\ ~Listed(det.result, "k3")
    /\ ListedBelow(det.result, "k1")


\* The outcomes of the group whose normalized name is key, as
\* <<market index, outcome index>>.
OutcomeNames ==
    UNION {{m.outcomes[o].name : o \in 1..Len(m.outcomes)} : m \in GroupMarkets}

\* The normalized name of every outcome name of the sample markets.
KeyOf == [name \in OutcomeNames |-> normalizeOutcomeName(name)]

Legs(key) ==
    UNION {{<<i, o>> : o \in {o \in 1..Len(groupIn.markets[i].outcomes) :
                                 KeyOf[groupIn.markets[i].outcomes[o].name] = key}} :
              i \in 1..Len(groupIn.markets)}

LegPrice(leg) == groupIn.markets[leg[1]].outcomes[leg[2]].price

LegVenue(leg) == groupIn.markets[leg[1]].venueId

\* The (yes, no) pairs of two different venues.
CrossPairs ==
    {pair \in Legs("yes") \X Legs("no") : LegVenue(pair[1]) # LegVenue(pair[2])}

\* The conditions under which detectArbitrage looks at pairs at all.
ArbitrageApplies ==
    /\ Len(groupIn.markets) >= 2
    /\ Cardinality(Legs("yes")) >= 2
    /\ Cardinality(Legs("no")) >= 2

\* yesPrice + noPrice in whole hundredths, and 1 - (yesPrice + noPrice) as
\* the double the code computes.
CostCents(pair) == LegPrice(pair[1]).c + LegPrice(pair[2]).c

ProfitOf(pair) == dSub(Whole(1), dAdd(LegPrice(pair[1]), LegPrice(pair[2])))

GuaranteedPairs == {pair \in CrossPairs : CostCents(pair) < 100}

NearPairs == {pair \in CrossPairs : CostCents(pair) >= 100 /\ CostCents(pair) < 102}

ArbitrageType(result) == result.details.arbitrageInfo.type

\* C13: of the cross-venue (yes, no) pairs, one that costs less than 1 makes
\* the finding guaranteed_profit; one that costs from 1 (profit exactly 0)
\* to less than 1.02 makes it near_arbitrage unless some pair is guaranteed;
\* pairs that cost 1.02 or more contribute nothing, so there is no finding
\* when every pair does.
C13_ArbitrageClasses ==
    (Returned("detectArbitrage") /\ ArbitrageApplies) =>
        LET guaranteed == GuaranteedPairs
            near == NearPairs
        IN /\ guaranteed # {} =>
                 det.result # NULL /\ ArbitrageType(det.result) = "guaranteed_profit"
           /\ (guaranteed = {} /\ near # {}) =>
                 det.result # NULL /\ ArbitrageType(det.result) = "near_arbitrage"
           /\ (guaranteed = {} /\ near = {}) => det.result = NULL

\* A near-arbitrage finding whose profit is exactly 0 (0.50 + 0.50), in a
\* group that also has a pair of cost 1.02 or more.
C13_Witness ==
    /\ Returned("detectArbitrage")
    /\ ArbitrageApplies
    /\ det.result # NULL
    /\ ArbitrageType(det.result) = "near_arbitrage"
    /\ det.result.details.arbitrageInfo.profit = Dbl(0, 0)
    /\ \E pair \in CrossPairs : CostCents(pair) >= 102


\* The cheapest pairs of a set of pairs.
Cheapest(pairs) ==
    LET all == pairs IN {p \in all : \A q \in all : CostCents(p) <= CostCents(q)}

\* The pairs the finding may be made from: the guaranteed ones if there are
\* any, else the near ones.
Candidates == LET guaranteed == GuaranteedPairs
              IN IF guaranteed # {} THEN guaranteed ELSE NearPairs

\* C14: the arbitrage finding carries the profit of a cheapest guaranteed
\* pair if some cross-venue pair is guaranteed, else that of a cheapest near
\* pair, with the matching type.  The sets of pairs do not depend on the
\* order of the markets, so neither do the type and the profit.
C14_ArbitrageSelection ==
    (Returned("detectArbitrage") /\ ArbitrageApplies /\ det.result # NULL) =>
        LET candidates == Candidates
        IN /\ ArbitrageType(det.result) =
                 (IF GuaranteedPairs # {} THEN "guaranteed_profit" ELSE "near_arbitrage")
           /\ \E p \in Cheapest(candidates) :
                 det.result.details.arbitrageInfo.profit = ProfitOf(p)
           /\ \A q \in candidates :
                 ~dLess(det.result.details.arbitrageInfo.profit, ProfitOf(q))

\* A guaranteed finding in a group with guaranteed pairs of two different
\* costs and a near pair, where the first cross-venue pair visited is not a
\* cheapest one.
C14_Witness ==
    /\ Returned("detectArbitrage")
    /\ ArbitrageApplies
    /\ det.result # NULL
    /\ ArbitrageType(det.result) = "guaranteed_profit"
    /\ Cardinality({CostCents(p) : p \in GuaranteedPairs}) >= 2
    /\ NearPairs # {}
    /\ \E p \in CrossPairs :
          /\ p \notin Cheapest(GuaranteedPairs)
          /\ \A q \in CrossPairs : p[1][1] <= q[1][1] /\ (p[1][1] = q[1][1] => p[2][1] <= q[2][1])


\* The venues named in "Buy Yes @ X, Buy No @ Y".
BuyVenues(yesVenue, noVenue) == "Buy Yes @ " \o yesVenue \o ", Buy No @ " \o noVenue

\* The normalized outcome names of the group and the markets that price one.
Keys ==
    UNION {{KeyOf[groupIn.markets[i].outcomes[o].name] :
               o \in 1..Len(groupIn.markets[i].outcomes)} : i \in 1..Len(groupIn.markets)}

MarketsPricing(key) == {leg[1] : leg \in Legs(key)}

\* max price - min price over the prices of a normalized name
HighestPrice(key) ==
    LET legs == Legs(key)
    IN LegPrice(CHOOSE a \in legs : \A b \in legs : ~dLess(LegPrice(a), LegPrice(b)))

LowestPrice(key) ==
    LET legs == Legs(key)
    IN LegPrice(CHOOSE a \in legs : \A b \in legs : ~dLess(LegPrice(b), LegPrice(a)))

BucketSpread(key) == dSub(HighestPrice(key), LowestPrice(key))

\* A name priced by at least two markets of the group, at least 0.03 apart.
Diverging(key) ==
    Cardinality(MarketsPricing(key)) >= 2 /\ ~dLess(BucketSpread(key), Price(3))

\* C16 as documented: detectCrossVenueDivergence returns a finding iff the
\* group has at least two markets and some normalized outcome name is priced
\* by at least two of them with max price - min price >= 0.03; the finding's
\* spread is the largest such spread, and every outcome it lists is priced by
\* at least two markets.
C16_DivergenceNeedsTwoMarkets ==
    Returned("detectCrossVenueDivergence") =>
        /\ (det.result # NULL) <=>
              (Len(groupIn.markets) >= 2 /\ \E key \in Keys : Diverging(key))
        /\ det.result # NULL =>
              /\ \A k \in 1..Len(det.result.details.outcomeComparisons) :
                    Cardinality(MarketsPricing(
                        KeyOf[det.result.details.outcomeComparisons[k].outcomeName])) >= 2
              /\ \E key \in Keys :
                    /\ Diverging(key)
                    /\ det.result.spread = BucketSpread(key)
                    /\ \A other \in Keys :
                          Diverging(other) => ~dLess(BucketSpread(key), BucketSpread(other))


\* The liquidity of the markets of the group, a missing one counted as 0.
RECURSIVE LiquiditySum(_)
LiquiditySum(n) ==
    IF n = 0 THEN 0
    ELSE LiquiditySum(n - 1)
         + (IF groupIn.markets[n].liquidity = NULL THEN 0
            ELSE groupIn.markets[n].liquidity.value)

MeanLiquidity == fDiv(fromInt(LiquiditySum(Len(groupIn.markets))), fromInt(Len(groupIn.markets)))

\* log10(MeanLiquidity + 1) * 5
LiquidityPoints == fMul(log10(fAdd(MeanLiquidity, One)), fromInt(5))

VenuePoints == (Cardinality({groupIn.markets[i].venueId : i \in 1..Len(groupIn.markets)}) - 1) * 10

SpreadPoints(spread) ==
    doubleOf(IF dLess(Whole(30), dTimes100(spread)) THEN Whole(30) ELSE dTimes100(spread))

\* C17: the score of a divergence finding is
\* min(spread * 100, 30) + min(log10(mean liquidity + 1) * 5, 30)
\* + min((number of venues - 1) * 10, 20), the mean liquidity counting a
\* missing liquidity as 0, and it lies between 0 and 80.
C17_DivergenceSeverity ==
    (Returned("detectCrossVenueDivergence") /\ det.result # NULL) =>
        /\ det.result.avgLiquidity = MeanLiquidity
        /\ det.result.score =
              fAdd(fAdd(SpreadPoints(det.result.spread),
                        IF fLess(LiquidityPoints, fromInt(30)) THEN LiquidityPoints
                        ELSE fromInt(30)),
                   fromInt(IF VenuePoints < 20 THEN VenuePoints ELSE 20))
        /\ ~fLess(det.result.score, fromInt(0))
        /\ ~fLess(fromInt(80), det.result.score)

\* A finding of score 80: a spread above 0.30, a mean liquidity of 9999999
\* (35 points before the cap) with markets that have no liquidity, and three
\* venues.
C17_Witness ==
    /\ Returned("detectCrossVenueDivergence")
    /\ det.result # NULL
    /\ det.result.score = fromInt(80)
    /\ LiquidityPoints = fromInt(35)
    /\ dLess(Price(30), det.result.spread)
    /\ \E i \in 1..Len(groupIn.markets) : groupIn.markets[i].liquidity = NULL


\* The entry of a normalized name in the map matchOutcomes returned.
Bucket(key) == CHOOSE k \in 1..Len(det.result) : det.result[k].key = key

\* C18 as documented: matchOutcomes returns one bucket per normalized outcome
\* name of the group; a bucket priced by two or more markets of the group
\* has spread = max price - min price and spread-percent = spread / min
\* price in percent, 0 when the min price is 0; a bucket priced by a single
\* market keeps spread 0 and spread-percent 0 and stays in the map.
C18_OutcomeAlignment ==
    Returned("matchOutcomes") =>
        /\ {det.result[k].key : k \in 1..Len(det.result)} = Keys
        /\ \A k \in 1..Len(det.result) :
              LET bucket == det.result[k]
                  key == bucket.key
              IN /\ Bucket(key) = k
                 /\ IF Cardinality(MarketsPricing(key)) >= 2
                    THEN /\ bucket.spread = dSub(HighestPrice(key), LowestPrice(key))
                         /\ bucket.spreadPercent =
                               (IF LowestPrice(key) = Dbl(0, 0) THEN fromInt(0)
                                ELSE fMul(fDiv(doubleOf(bucket.spread),
                                               doubleOf(LowestPrice(key))), fromInt(100)))
                    ELSE /\ bucket.spread = Dbl(0, 0)
                         /\ bucket.spreadPercent = fromInt(0)


\* C19 as documented: no call of the engine throws.  generateCanonicalTitle
\* and the three detectors end with a value or with the no-finding sentinel,
\* never with a thrown error; matchOutcomes, detectOpportunities and
\* rankOpportunities end with a list.
C19_NeverThrows ==
    /\ (pc = "returned" /\ det.fn # "matchOutcomes") => det.result # Threw("TypeError")
    /\ (pc \in {"detected", "ranked"} \/ Returned("matchOutcomes")) => Len(det.result) >= 0


(***************************************************************************)
(* Ranking properties.                                                     *)
(***************************************************************************)
SameScore(a, b) == ~scoreLess(a.score, b.score) /\ ~scoreLess(b.score, a.score)

\* The ways of telling, for each place of ranked, the place of input its
\* finding is read from: none when a finding of ranked is not in input, one
\* when no finding is twice in input, any place otherwise.
Readings(input, ranked) ==
    IF \E i \in 1..Len(ranked) : ranked[i] \notin Range(input) THEN {}
    ELSE IF \A k, l \in 1..Len(input) : k # l => input[k] # input[l]
    THEN {[i \in 1..Len(ranked) |-> CHOOSE k \in 1..Len(input) : input[k] = ranked[i]]}
    ELSE [1..Len(ranked) -> 1..Len(input)]

\* The ways of reading ranked as a rearrangement of input that keeps the
\* input order of findings with equal scores.
StableRearrangements(input, ranked) ==
    {f \in Readings(input, ranked) :
        /\ \A i, j \in 1..Len(ranked) : i # j => f[i] # f[j]
        /\ \A i \in 1..Len(ranked) : ranked[i] = input[f[i]]
        /\ \A i, j \in 1..Len(ranked) :
              (i < j /\ SameScore(ranked[i], ranked[j])) => f[i] < f[j]}

RankedRight ==
    pc = "ranked" =>
        /\ Len(det.result) = Len(opportunities)
        /\ \A i, j \in 1..Len(det.result) :
              i < j => ~scoreLess(det.result[i].score, det.result[j].score)
        /\ StableRearrangements(opportunities, det.result) # {}

\* C20 as documented: every call of rankOpportunities returns the findings it
\* was given, each once, highest score first, findings of equal score in
\* their input order, and leaves the list it was given as it was.
C20_RankIsStableSort ==
    [][RankedRight' /\ (pc' = "ranked" => opportunities' = opportunities)]_vars

\* The ways of reading ranked as a rearrangement of input.
Rearrangements(input, ranked) ==
    {f \in Readings(input, ranked) :
        /\ \A i, j \in 1..Len(ranked) : i # j => f[i] # f[j]
        /\ \A i \in 1..Len(ranked) : ranked[i] = input[f[i]]}

NoScoreIsNaN(findings) == \A k \in 1..Len(findings) : findings[k].score # NaN

\* C20: every call of rankOpportunities returns the findings it was given,
\* each once, and leaves the list it was given as it was; when no score of
\* the list is NaN, the findings come highest score first, findings of equal
\* score in their input order.
C20_RankIsStableSortOfNumbers ==
    [][pc' = "ranked" =>
          /\ opportunities' = opportunities
          /\ Len(det'.result) = Len(opportunities)
          /\ Rearrangements(opportunities, det'.result) # {}
          /\ NoScoreIsNaN(opportunities) => RankedRight']_vars

\* Three findings were ranked into another order: the one with the highest
\* score was last, and the two others have the same score and stay in input
\* order.
C20_Witness ==
    /\ pc = "ranked"
    /\ Len(opportunities) = 3
    /\ NoScoreIsNaN(opportunities)
    /\ det.result # opportunities
    /\ det.result[1] = opportunities[3]
    /\ SameScore(opportunities[1], opportunities[2])
    /\ opportunities[1] # opportunities[2]
    /\ det.result[2] = opportunities[1]


(***************************************************************************)
(* applyFreshnessDecay (src/unnamed/part_000).  Instants are milliseconds  *)
(* since the epoch, as Date.getTime() gives them; new Date() reads the     *)
(* clock, the variable now.  The age, the factor and the product are       *)
(* doubles.                                                                *)
(***************************************************************************)
MsPerMinute == 1000 * 60

\* (now.getTime() - lastUpdated.getTime()) / (1000 * 60)
ageMinutesOf(nowMs, lastUpdated) == fDiv(fromInt(nowMs - lastUpdated), fromInt(MsPerMinute))

\* Variant: a straight line from 100% at 0 minutes through 50% at 60 minutes.
decayFactorLinear(ageMinutes) == fSub(One, fDiv(ageMinutes, fromInt(120)))

\* Math.pow(0.5, ageMinutes / 60)
decayFactorOf(ageMinutes) == powHalf(fDiv(ageMinutes, fromInt(60)))

applyFreshnessDecay(score, lastUpdated) ==
    fMul(score, decayFactorOf(ageMinutesOf(now, lastUpdated)))

(***************************************************************************)
(* SpecDecay: the freshness of a score is asked for again and again while  *)
(* the clock advances, by a millisecond, a quarter of an hour or a hundred *)
(* minutes at a time, up to MaxClockHours hours.  lastUpdated may lie      *)
(* ahead of the clock.                                                     *)
(***************************************************************************)
MaxClockHours == 4

\* The milliseconds past a whole minute the clock is read at
MaxOddMs == 1

QuarterHour == 15 * MsPerMinute

ClockSteps == {1, QuarterHour, 100 * MsPerMinute}

DecayScores == {fromInt(0), fromInt(62), fDiv(fromInt(185), Two), Infinity}

ClockStarts == {0}

UpdateInstants == {0, 30 * MsPerMinute}

Undecayed(score, lastUpdated) ==
    [score |-> score, lastUpdated |-> lastUpdated, calledAt |-> NULL, result |-> NULL]

InitDecay ==
    \E score \in DecayScores, lastUpdated \in UpdateInstants, start \in ClockStarts :
        /\ markets = <<>>
        /\ call = NoCall
        /\ matches = <<>>
        /\ minScore = DefaultMinScore
        /\ groups = <<>>
        /\ pc = "score"
        /\ NoDetection
        /\ db = EmptyDb
        /\ runs = <<>>
        /\ admin = <<>>
        /\ env = NoEnv
        /\ now = start
        /\ decayed = Undecayed(score, lastUpdated)

detectionVars == <<markets, call, matches, minScore, groups, pc, groupIn, opportunities, det>>

ApplyFreshnessDecay ==
    /\ pc = "score"
    /\ decayed' = [decayed EXCEPT
                     !.calledAt = Some(now),
                     !.result = applyFreshnessDecay(decayed.score, decayed.lastUpdated)]
    /\ UNCHANGED <<detectionVars, db, runs, admin, env, now>>

\* The clock advances.
Tick ==
    /\ pc = "score"
    /\ \E step \in ClockSteps :
          /\ now + step <= MaxClockHours * 60 * MsPerMinute + MaxOddMs
          /\ (now + step) % MsPerMinute <= MaxOddMs
          /\ now' = now + step
    /\ UNCHANGED <<detectionVars, db, runs, admin, env, decayed>>

NextDecay == ApplyFreshnessDecay \/ Tick

SpecDecay == InitDecay /\ [][NextDecay]_vars

(***************************************************************************)
(* Freshness decay, stated on the score handed in, the result and the age  *)
(* at the call.                                                            *)
(***************************************************************************)
Decayed == decayed # NULL /\ decayed.calledAt # NULL

\* The age at the call, in milliseconds.
AgeAtCall(d) == d.calledAt.value - d.lastUpdated

\* x <= y on doubles that are numbers.
NoGreater(x, y) == x # NaN /\ y # NaN /\ ~fLess(y, x)

\* x = y / n
IsShare(x, y, n) == fEqual(x, fDiv(y, fromInt(n)))

DecayValues(d) ==
    AgeAtCall(d) >= 0 =>
        /\ NoGreater(Zero(FALSE), d.result)
        /\ NoGreater(d.result, d.score)
        /\ AgeAtCall(d) = 0 => d.result = d.score
        /\ AgeAtCall(d) = 60 * MsPerMinute => IsShare(d.result, d.score, 2)
        /\ AgeAtCall(d) = 120 * MsPerMinute => IsShare(d.result, d.score, 4)

\* C21: for a score S >= 0, applyFreshnessDecay gives exactly S at age 0, S/2
\* at 60 minutes and S/4 at 120 minutes, is never negative at a non-negative
\* age, and a later call on the same score and lastUpdated never gives more
\* than an earlier one.
C21_FreshnessDecay ==
    [][/\ Decayed' => DecayValues(decayed')
       /\ (Decayed /\ Decayed' /\ AgeAtCall(decayed) >= 0)
              => NoGreater(decayed'.result, decayed.result)]_vars

\* A positive score was asked for at 120 minutes and came to a quarter.
C21_Witness ==
    /\ Decayed
    /\ AgeAtCall(decayed) = 120 * MsPerMinute
    /\ decayed.score = fromInt(62)
    /\ decayed.result = fDiv(fromInt(31), Two)


\* C22: when groupMatches returns, no candidate with score >= minScore has
\* both of its markets outside every group, and a market that is in no
\* candidate with score >= minScore is in no group.
C22_GreedyMaximal ==
    pc = "grouped" =>
        /\ \A k \in 1..Len(Eligible) :
              Grouped(Eligible[k].market1.id) \/ Grouped(Eligible[k].market2.id)
        /\ \A a \in MarketIds :
              (\A k \in 1..Len(Eligible) : a \notin PairOf(Eligible[k])) => ~Grouped(a)

\* A group was formed, a market of a candidate under minScore stayed
\* out, and an eligible candidate was passed over with one market taken.
C22_Witness ==
    /\ pc = "grouped"
    /\ groups # <<>>
    /\ \E k \in 1..Len(matches) :
          /\ fLess(matches[k].score, fromInt(minScore))
          /\ ~Grouped(matches[k].market1.id)
    /\ \E k \in 1..Len(Eligible) :
          /\ \A g \in Range(groups) : MemberIds(g) # PairOf(Eligible[k])
          /\ ~(Grouped(Eligible[k].market1.id) /\ Grouped(Eligible[k].market2.id))


(***************************************************************************)
(* The sync service: src/src/lib/sync.ts, the DomeAPI client it fetches    *)
(* with (src/unnamed/part_001), the mock catalogue of apibricks.ts and the *)
(* cron route that starts it (src/src/app/api/cron/route.ts).              *)
(*                                                                         *)
(* An environment variable that is not set is kept as the empty string:    *)
(* the code tells the two apart nowhere (!key, cronSecret && ..., and      *)
(* DEMO_MODE === "true").  The tables are sequences in insertion order,    *)
(* the order a query without orderBy returns them in; a generated id is    *)
(* the table's prefix and the row's number.  Of a market the model keeps   *)
(* what matching and detection read, not description and endDate.          *)
(***************************************************************************)
SUPPORTED_VENUES == <<"polymarket", "kalshi">>

MockOutcome(name, hundredths) == [name |-> name, price |-> Price(hundredths)]

getMockMarkets ==
    <<[id |-> "poly-1", title |-> "Will Bitcoin exceed $100,000 by end of 2025?",
       category |-> "Crypto", status |-> "active",
       url |-> "https://polymarket.com/markets?_q=Bitcoin%20100000%202025",
       volume |-> Some(5200000), liquidity |-> Some(850000),
       outcomes |-> <<MockOutcome("Yes", 72), MockOutcome("No", 28)>>],
      [id |-> "kalshi-1", title |-> "Bitcoin to hit $100K in 2025",
       category |-> "Crypto", status |-> "active",
       url |-> "https://kalshi.com/browse?q=Bitcoin%20100K%202025",
       volume |-> Some(1800000), liquidity |-> Some(320000),
       outcomes |-> <<MockOutcome("Yes", 68), MockOutcome("No", 32)>>],
      [id |-> "manifold-1", title |-> "Will BTC reach $100,000 before 2026?",
       category |-> "Crypto", status |-> "active",
       url |-> "https://manifold.markets/browse?q=Bitcoin%20100000%202026",
       volume |-> Some(45000), liquidity |-> Some(12000),
       outcomes |-> <<MockOutcome("Yes", 65), MockOutcome("No", 35)>>],
      [id |-> "poly-2", title |-> "Will the Fed cut rates in Q1 2026?",
       category |-> "Economics", status |-> "active",
       url |-> "https://polymarket.com/markets?_q=Fed%20cut%20rates%20Q1%202026",
       volume |-> Some(3400000), liquidity |-> Some(620000),
       outcomes |-> <<MockOutcome("Yes", 45), MockOutcome("No", 55)>>],
      [id |-> "kalshi-2", title |-> "Federal Reserve rate cut Q1 2026",
       category |-> "Economics", status |-> "active",
       url |-> "https://kalshi.com/browse?q=Federal%20Reserve%20rate%20cut%20Q1%202026",
       volume |-> Some(2100000), liquidity |-> Some(410000),
       outcomes |-> <<MockOutcome("Yes", 52), MockOutcome("No", 48)>>],
      [id |-> "poly-3", title |-> "Will AI pass the Turing test by 2027?",
       category |-> "Technology", status |-> "active",
       url |-> "https://polymarket.com/markets?_q=AI%20Turing%20test%202027",
       volume |-> Some(890000), liquidity |-> Some(180000),
       outcomes |-> <<MockOutcome("Yes", 38), MockOutcome("No", 62)>>],
      [id |-> "manifold-3", title |-> "AI passes Turing test before 2027",
       category |-> "AI", status |-> "active",
       url |-> "https://manifold.markets/browse?q=AI%20Turing%20test%202027",
       volume |-> Some(32000), liquidity |-> Some(8500),
       outcomes |-> <<MockOutcome("Yes", 31), MockOutcome("No", 69)>>],
      [id |-> "poly-4", title |-> "Will SpaceX Starship reach orbit in 2026?",
       category |-> "Space", status |-> "active",
       url |-> "https://polymarket.com/markets?_q=SpaceX%20Starship%20orbit%202026",
       volume |-> Some(1250000), liquidity |-> Some(290000),
       outcomes |-> <<MockOutcome("Yes", 82), MockOutcome("No", 18)>>],
      [id |-> "kalshi-4", title |-> "Starship successful orbital flight 2026",
       category |-> "Space", status |-> "active",
       url |-> "https://kalshi.com/browse?q=Starship%20orbital%20flight%202026",
       volume |-> Some(680000), liquidity |-> Some(145000),
       outcomes |-> <<MockOutcome("Yes", 78), MockOutcome("No", 22)>>],
      [id |-> "poly-5", title |-> "2026 US Midterm Elections: Republicans win House?",
       category |-> "Politics", status |-> "active",
       url |-> "https://polymarket.com/markets?_q=2026%20Midterm%20Republicans%20House",
       volume |-> Some(8900000), liquidity |-> Some(1200000),
       outcomes |-> <<MockOutcome("Yes", 58), MockOutcome("No", 42)>>],
      [id |-> "kalshi-5", title |-> "GOP wins House in 2026 midterms",
       category |-> "Politics", status |-> "active",
       url |-> "https://kalshi.com/browse?q=GOP%20House%202026%20midterms",
       volume |-> Some(4200000), liquidity |-> Some(780000),
       outcomes |-> <<MockOutcome("Yes", 54), MockOutcome("No", 46)>>],
      [id |-> "manifold-5", title |-> "Republicans control House after 2026 elections",
       category |-> "Politics", status |-> "active",
       url |-> "https://manifold.markets/browse?q=Republicans%20House%202026",
       volume |-> Some(78000), liquidity |-> Some(21000),
       outcomes |-> <<MockOutcome("Yes", 61), MockOutcome("No", 39)>>],
      [id |-> "poly-6", title |-> "Which company reaches $5T market cap first?",
       category |-> "Finance", status |-> "active",
       url |-> "https://polymarket.com/markets?_q=company%205T%20market%20cap",
       volume |-> Some(2100000), liquidity |-> Some(450000),
       outcomes |-> <<MockOutcome("Apple", 35), MockOutcome("Microsoft", 28),
                      MockOutcome("Nvidia", 42)>>],
      [id |-> "kalshi-6", title |-> "First company to $5 trillion valuation",
       category |-> "Finance", status |-> "active",
       url |-> "https://kalshi.com/browse?q=company%205%20trillion%20valuation",
       volume |-> Some(920000), liquidity |-> Some(210000),
       outcomes |-> <<MockOutcome("Apple", 38), MockOutcome("Microsoft", 31),
                      MockOutcome("Nvidia", 29)>>]>>

venuePrefixOf(venue) ==
    IF venue = "polymarket" THEN "poly" ELSE IF venue = "kalshi" THEN "kalshi" ELSE "manifold"

getMockMarketsForVenue(venue) ==
    SelectSeq(getMockMarkets, LAMBDA m : StartsWith(m.id, venuePrefixOf(venue)))

(***************************************************************************)
(* The DomeAPI client.  A response is what the request to the venue's      *)
(* endpoint comes to: kind "ok" with the markets of the body, "http" for a *)
(* status that is not OK, "network" for a fetch that rejects.              *)
(***************************************************************************)
Thrown(r) == "threw" \in DOMAIN r

\* getApiKey, fetch, and the check of response.ok
domeApiRequest(response) ==
    IF env.DOMEAPI_KEY = "" THEN Threw("DOMEAPI_KEY environment variable is not set")
    ELSE IF response.kind = "network" THEN Threw("fetch failed")
    ELSE IF response.kind = "http" THEN Threw("DomeAPI error: 503 Service Unavailable")
    ELSE Some(response.markets)

statusOf(market) == IF market.status = "open" THEN "active" ELSE market.status

polymarketData(market) ==
    [id |-> IF market.condition_id # "" THEN market.condition_id ELSE market.market_slug,
     title |-> market.title,
     category |-> IF market.tags # <<>> /\ market.tags[1] # "" THEN market.tags[1]
                  ELSE "General",
     status |-> statusOf(market),
     url |-> IF market.market_slug # "" \/ market.condition_id # ""
             THEN "https://polymarket.com/event/"
                      \o (IF market.market_slug # "" THEN market.market_slug
                          ELSE market.condition_id)
             ELSE "https://polymarket.com/markets",
     volume |-> Some(market.volume_total),
     liquidity |-> Some(0),
     outcomes |-> <<[name |-> market.side_a.label, price |-> Price(50)],
                    [name |-> market.side_b.label, price |-> Price(50)]>>]

\* try { ... } catch { return [] }
fetchPolymarketMarkets(response) ==
    LET data == domeApiRequest(response)
    IN  IF Thrown(data) THEN <<>>
        ELSE [i \in 1..Len(data.value) |-> polymarketData(data.value[i])]

\* (market.last_price || 50) / 100
yesPriceOf(market) == Price(IF market.last_price = 0 THEN 50 ELSE market.last_price)

\* market.event_ticker.toLowerCase().replace(/_/g, "-")
eventSlugOf[ticker \in STRING] ==
    IF ticker = "" THEN ""
    ELSE (IF Head(ticker) = "_" THEN "-" ELSE toLowerCase(Head(ticker)))
         \o eventSlugOf[Tail(ticker)]

kalshiData(market) ==
    [id |-> market.market_ticker,
     title |-> market.title,
     category |-> "General",
     status |-> statusOf(market),
     url |-> IF market.event_ticker # ""
             THEN "https://kalshi.com/markets/" \o eventSlugOf[market.event_ticker]
             ELSE "https://kalshi.com/markets",
     volume |-> Some(IF market.volume # 0 THEN market.volume ELSE market.volume_24h),
     liquidity |-> Some(0),
     outcomes |-> <<[name |-> "Yes", price |-> yesPriceOf(market)],
                    [name |-> "No", price |-> dSub(Whole(1), yesPriceOf(market))]>>]

fetchKalshiMarkets(response) ==
    LET data == domeApiRequest(response)
    IN  IF Thrown(data) THEN <<>>
        ELSE [i \in 1..Len(data.value) |-> kalshiData(data.value[i])]

fetchMarketsFromVenue(venue, response) ==
    IF venue = "polymarket" THEN fetchPolymarketMarkets(response)
    ELSE IF venue = "kalshi" THEN fetchKalshiMarkets(response)
    ELSE <<>>

\* fetchMarketsFromVenue as the try block of fetchMarketsFromSource sees it:
\* it returns a list, also when the request failed.
tryFetchMarketsFromVenue(venue, response) == Some(fetchMarketsFromVenue(venue, response))

\* const isDemoMode = ...; if (isDemoMode) mock; try { fetch } catch { mock }
fetchMarketsFromSource(venue, response) ==
    IF env.DEMO_MODE = "true" THEN getMockMarketsForVenue(venue)
    ELSE LET attempt == tryFetchMarketsFromVenue(venue, response)
         IN  IF Thrown(attempt) THEN getMockMarketsForVenue(venue) ELSE attempt.value


(***************************************************************************)
(* The queries of sync.ts, on the tables of db.                            *)
(***************************************************************************)
\* prisma.venue.upsert({ where: { id: venueId }, ... })
upsertVenue(d, venueId) ==
    [d EXCEPT !.venues = @ \cup {[id |-> venueId, name |-> VenueName(venueId)]}]

rowOf(rows, venueId, externalId) ==
    {k \in 1..Len(rows) : rows[k].venueId = venueId /\ rows[k].externalId = externalId}

\* prisma.market.upsert by (venueId, externalId): create makes a market with
\* no outcome and no group, update leaves outcomes and groupId alone.
upsertMarket(d, apiMarket, venueId) ==
    LET found == rowOf(d.markets, venueId, apiMarket.id)
    IN  IF found = {}
        THEN [d EXCEPT !.markets = Append(@,
                 [id |-> "m" \o ToString(Len(d.markets) + 1),
                  externalId |-> apiMarket.id,
                  venueId |-> venueId,
                  venue |-> [id |-> venueId, name |-> VenueName(venueId)],
                  title |-> apiMarket.title,
                  category |-> apiMarket.category,
                  status |-> apiMarket.status,
                  url |-> apiMarket.url,
                  volume |-> apiMarket.volume,
                  liquidity |-> apiMarket.liquidity,
                  outcomes |-> <<>>,
                  groupId |-> NULL])]
        ELSE [d EXCEPT !.markets = [k \in 1..Len(@) |->
                 IF k \in found
                 THEN [@[k] EXCEPT !.title = apiMarket.title,
                                   !.category = apiMarket.category,
                                   !.status = apiMarket.status,
                                   !.url = apiMarket.url,
                                   !.volume = apiMarket.volume,
                                   !.liquidity = apiMarket.liquidity]
                 ELSE @[k]]]

\* market.id of the row the upsert returns
upsertedId(d, apiMarket, venueId) ==
    d.markets[CHOOSE k \in rowOf(d.markets, venueId, apiMarket.id) : TRUE].id

\* prisma.outcome.upsert by (marketId, name): the price of a known outcome is
\* updated, a new outcome is created.
upsertOutcome(d, marketId, outcome) ==
    [d EXCEPT !.markets = [k \in 1..Len(@) |->
        IF @[k].id # marketId THEN @[k]
        ELSE LET rows == @[k].outcomes
                 known == {j \in 1..Len(rows) : rows[j].name = outcome.name}
             IN  [@[k] EXCEPT !.outcomes =
                     IF known = {}
                     THEN Append(rows, [name |-> outcome.name, price |-> outcome.price])
                     ELSE [j \in 1..Len(rows) |->
                              IF j \in known THEN [rows[j] EXCEPT !.price = outcome.price]
                              ELSE rows[j]]]]]

\* if (market.title && market.outcomes.length > 0)
upsertable(market) == market.title # "" /\ Len(market.outcomes) > 0

\* Variant: the markets that already belong to a group are read as well.
activeMarkets(d) == SelectSeq(d.markets, LAMBDA m : m.status = "active")

\* where: { status: "active", groupId: null }
ungroupedActive(d) ==
    SelectSeq(d.markets, LAMBDA m : m.status = "active" /\ m.groupId = NULL)

\* if (markets.length < 2) return; findAllMatches; groupMatches with the default minScore
matchedGroups(ms) ==
    IF Len(ms) < 2 THEN <<>>
    ELSE The({The({[k \in 1..Len(grouped) |-> grouped[k].members] :
                      grouped \in {groupMatches(ms, candidates, DefaultMinScore)}}) :
                 candidates \in {findAllMatches(ms)}})

\* marketGroup.map(m => m.category).filter(Boolean), categories[0] or null
categoryOf(marketGroup) ==
    LET categories == SelectSeq(marketGroup, LAMBDA m : m.category # "")
    IN  IF categories # <<>> THEN Some(categories[1].category) ELSE NULL

TitlePrefixLength == 50

\* canonicalTitle.substring(0, 50)
titlePrefixOf(canonicalTitle) ==
    SubSeq(canonicalTitle, 1, Min(TitlePrefixLength, Len(canonicalTitle)))

\* A character as SQLite's LIKE compares it: the letters A to Z count as
\* a to z, every other character as itself.
likeFold(c) == The({IF c \in DOMAIN small THEN small[c] ELSE c : small \in {AsciiLower}})

\* text LIKE pattern: % stands for any characters, _ for any one character.
RECURSIVE like(_, _)
like(text, pattern) ==
    IF pattern = "" THEN text = ""
    ELSE IF Head(pattern) = "%"
    THEN \E i \in 0..Len(text) : like(SubSeq(text, i + 1, Len(text)), Tail(pattern))
    ELSE /\ text # ""
         /\ Head(pattern) = "_" \/ likeFold(Head(text)) = likeFold(Head(pattern))
         /\ like(Tail(text), Tail(pattern))

\* canonicalTitle: { contains: needle }, which Prisma hands to SQLite as
\* canonicalTitle LIKE '%' || needle || '%'
contains(text, needle) == like(text, "%" \o needle \o "%")

reusable(group, canonicalTitle) ==
    contains(group.canonicalTitle, titlePrefixOf(canonicalTitle))

\* prisma.marketGroup.findFirst: the first group that can be reused, or null.
findFirstGroup(d, canonicalTitle) ==
    LET hits == {k \in 1..Len(d.groups) : reusable(d.groups[k], canonicalTitle)}
    IN  IF hits = {} THEN NULL
        ELSE Some(d.groups[CHOOSE k \in hits : \A j \in hits : k <= j].id)

nextGroupId(d) == "g" \o ToString(Len(d.groups) + 1)

\* prisma.marketGroup.create: isVerified takes the default of the schema.
createGroup(d, canonicalTitle, category) ==
    [d EXCEPT !.groups = Append(@, [id |-> nextGroupId(d),
                                     canonicalTitle |-> canonicalTitle,
                                     category |-> category,
                                     isVerified |-> FALSE])]

\* prisma.market.update({ where: { id }, data: { groupId } })
linkMarket(d, marketId, groupId) ==
    [d EXCEPT !.markets = [k \in 1..Len(@) |->
        IF @[k].id = marketId THEN [@[k] EXCEPT !.groupId = Some(groupId)] ELSE @[k]]]

\* prisma.marketGroup.findMany({ include: { markets: ... } })
groupsWithMarkets(d) ==
    [k \in 1..Len(d.groups) |->
        [id |-> d.groups[k].id,
         canonicalTitle |-> d.groups[k].canonicalTitle,
         markets |-> SelectSeq(d.markets, LAMBDA m : m.groupId = Some(d.groups[k].id))]]

\* Variant: only the opportunities of groups of three markets or more are
\* deactivated.
deactivateDetectable(d) ==
    [d EXCEPT !.opportunities = [k \in 1..Len(@) |->
        IF Cardinality({m \in Range(d.markets) : m.groupId = Some(@[k].groupId)}) >= 3
        THEN [@[k] EXCEPT !.isActive = FALSE] ELSE @[k]]]


\* prisma.opportunity.updateMany({ data: { isActive: false } })
deactivateOpportunities(d) ==
    [d EXCEPT !.opportunities = [k \in 1..Len(@) |-> [@[k] EXCEPT !.isActive = FALSE]]]

\* if (group.markets.length < 2) continue
detectable(group) == Len(group.markets) >= 2

findingsOf(group) == IF detectable(group) THEN detectOpportunities(group) ELSE <<>>

\* The findings of the loop over the groups, in the order they are created in.
RECURSIVE findingsOfAll(_)
findingsOfAll(groupsRead) ==
    IF groupsRead = <<>> THEN <<>>
    ELSE findingsOf(Head(groupsRead)) \o findingsOfAll(Tail(groupsRead))

\* prisma.opportunity.create
createOpportunity(d, opp) ==
    [d EXCEPT !.opportunities = Append(@,
        [groupId |-> opp.groupId, type |-> opp.type, score |-> opp.score,
         spread |-> opp.spread, isActive |-> TRUE])]

(***************************************************************************)
(* The queries of the admin routes: POST /api/markets                      *)
(* (src/src/app/api/cron/route.ts) and PATCH /api/groups                   *)
(* (src/src/components/Filters.tsx).                                       *)
(***************************************************************************)
\* where: { id: { in: marketIds } }
inIds(market, marketIds) == \E i \in 1..Len(marketIds) : marketIds[i] = market.id

groupExists(d, groupId) == \E g \in Range(d.groups) : g.id = groupId

\* The foreign key of Market.groupId refuses an update that would leave a
\* market pointing at no group.
violatesForeignKey(d, marketIds, groupId) ==
    /\ \E m \in Range(d.markets) : inIds(m, marketIds)
    /\ ~groupExists(d, groupId)

\* prisma.market.updateMany({ where: { id: { in: marketIds } }, data: { groupId } })
updateManyMarkets(d, marketIds, groupId) ==
    [d EXCEPT !.markets = [k \in 1..Len(@) |->
        IF inIds(@[k], marketIds) THEN [@[k] EXCEPT !.groupId = groupId] ELSE @[k]]]

\* prisma.marketGroup.update({ where: { id: groupId }, data })
updateGroup(d, groupId, data) ==
    [d EXCEPT !.groups = [k \in 1..Len(@) |->
        IF @[k].id = groupId
        THEN [f \in DOMAIN @[k] |-> IF f \in DOMAIN data THEN data[f] ELSE @[k][f]]
        ELSE @[k]]]

\* prisma.market.findFirst({ where: { id: { in: marketIds } } }): the first
\* of the markets in the table, or null.
findFirstMarket(d, marketIds) ==
    LET hits == {k \in 1..Len(d.markets) : inIds(d.markets[k], marketIds)}
    IN  IF hits = {} THEN NULL
        ELSE Some(d.markets[CHOOSE k \in hits : \A j \in hits : k <= j])

\* prisma.marketGroup.create({ data: { canonicalTitle, category, isVerified: true } })
createVerifiedGroup(d, newGroupTitle, category) ==
    [d EXCEPT !.groups = Append(@, [id |-> nextGroupId(d),
                                     canonicalTitle |-> newGroupTitle,
                                     category |-> category,
                                     isVerified |-> TRUE])]

\* const updateData = {}; if (typeof isVerified === "boolean") ...; if (canonicalTitle) ...
updateDataOf(body) ==
    [f \in (IF body.isVerified # NULL THEN {"isVerified"} ELSE {})
              \cup (IF body.canonicalTitle # "" THEN {"canonicalTitle"} ELSE {}) |->
        IF f = "isVerified" THEN body.isVerified.value ELSE body.canonicalTitle]


(***************************************************************************)
(* The cron route and runSync.  runs is the list of the requests made so   *)
(* far; a request's record holds the locals of its GET handler and of the  *)
(* runSync it started, and pc, the await it stands at.  One action is one  *)
(* awaited query, or the fetch of one venue's markets.                     *)
(***************************************************************************)
MaxRuns == 2

\* The queries of runSync that reject and the requests to the admin routes,
\* taken together
MaxIncidents == 1

\* if (cronSecret && authHeader !== `Bearer ${cronSecret}`) return 401
rejected(authHeader) ==
    env.CRON_SECRET # "" /\ authHeader # Some("Bearer " \o env.CRON_SECRET)

NewRun(authHeader) ==
    [pc |-> IF rejected(authHeader) THEN "done" ELSE "start",
     authHeader |-> authHeader,
     status |-> IF rejected(authHeader) THEN 401 ELSE 0,
     logId |-> "", venue |-> 1, marketsProcessed |-> 0, fetched |-> <<>>, marketId |-> "",
     outcomes |-> <<>>, todo |-> <<>>, group |-> NULL, reused |-> FALSE, member |-> 1,
     snapshot |-> <<>>, creates |-> <<>>, opportunityCount |-> 0, error |-> "",
     result |-> NULL]

\* The handler has answered: its locals are gone; the answer stays, and so do
\* the groups its detection pass read.
Answered(run, status, result) ==
    [NewRun(run.authHeader) EXCEPT !.pc = "done", !.status = status, !.logId = run.logId,
                                   !.snapshot = run.snapshot,
                                   !.error = run.error, !.result = result]

Quiet == \A r \in 1..Len(runs) : runs[r].pc = "done"

\* GET and POST of /api/cron, up to the call of runSync; no request is under way.
Get(authHeader) ==
    /\ pc = "serving"
    /\ Len(runs) < MaxRuns
    /\ Quiet
    /\ runs' = Append(runs, NewRun(authHeader))
    /\ UNCHANGED <<detectionVars, db, admin, env, now, decayed>>

\* A request that arrives while another one is being served.
OverlappingGet(authHeader) ==
    /\ pc = "serving"
    /\ Len(runs) < MaxRuns
    /\ Cardinality({r \in 1..Len(runs) : runs[r].pc # "done"}) = 1
    /\ runs' = Append(runs, NewRun(authHeader))
    /\ UNCHANGED <<detectionVars, db, admin, env, now, decayed>>

Step(r, at, run, d) ==
    /\ pc = "serving"
    /\ r \in 1..Len(runs)
    /\ runs[r].pc = at
    /\ runs' = [runs EXCEPT ![r] = run]
    /\ db' = d
    /\ UNCHANGED <<detectionVars, admin, env, now, decayed>>

Failures == Cardinality({r \in 1..Len(runs) : runs[r].error # ""})

Incidents == Failures + Len(admin)

\* prisma.syncLog.create({ data: { status: "running" } })
CreateSyncLog(r) ==
    LET id == "s" \o ToString(Len(db.syncLogs) + 1)
    IN  /\ r \in 1..Len(runs)
        /\ Step(r, "start",
                [runs[r] EXCEPT !.pc = "venues", !.logId = id],
                [db EXCEPT !.syncLogs = Append(@,
                    [id |-> id, status |-> "running", startedAt |-> now, endedAt |-> NULL,
                     marketsProcessed |-> 0, opportunitiesFound |-> 0, error |-> ""])])

\* syncLog.create rejects: it stands before the try, so runSync rejects with
\* no log written, and the route answers 500 from its own catch.
RejectSyncLog(r) ==
    /\ r \in 1..Len(runs)
    /\ Incidents < MaxIncidents
    /\ Step(r, "start",
            Answered([runs[r] EXCEPT !.error = "Database error"], 500, NULL), db)

\* One round of the loop of initializeVenues.
InitializeVenues(r) ==
    /\ r \in 1..Len(runs)
    /\ runs[r].pc = "venues"
    /\ LET last == runs[r].venue = Len(SUPPORTED_VENUES)
       IN  Step(r, "venues",
                [runs[r] EXCEPT !.venue = IF last THEN 1 ELSE @ + 1,
                                !.pc = IF last THEN "fetch" ELSE "venues"],
                upsertVenue(db, SUPPORTED_VENUES[runs[r].venue]))

\* syncMarkets with the markets in rest left of the venue it is at: the next
\* await is the upsert of the next market, the fetch from the next venue, or
\* the findMany of runMatching.
syncMarketsOn(run, rest) ==
    LET last == run.venue = Len(SUPPORTED_VENUES)
    IN  [run EXCEPT !.fetched = rest,
                    !.venue = IF rest # <<>> THEN @ ELSE IF last THEN 1 ELSE @ + 1,
                    !.pc = IF rest # <<>> THEN "upsert market"
                           ELSE IF last THEN "match" ELSE "fetch"]

\* await fetchMarketsFromSource(venue); the markets without a title or
\* without outcomes are passed over.
SyncVenue(r, response) ==
    /\ r \in 1..Len(runs)
    /\ runs[r].pc = "fetch"
    /\ Step(r, "fetch",
            syncMarketsOn(runs[r],
                          SelectSeq(fetchMarketsFromSource(SUPPORTED_VENUES[runs[r].venue],
                                                           response), upsertable)),
            db)

\* upsertMarket: prisma.market.upsert
UpsertMarket(r) ==
    /\ r \in 1..Len(runs)
    /\ runs[r].pc = "upsert market"
    /\ LET apiMarket == Head(runs[r].fetched)
           venueId == SUPPORTED_VENUES[runs[r].venue]
           d == upsertMarket(db, apiMarket, venueId)
       IN  Step(r, "upsert market",
                [runs[r] EXCEPT !.marketId = upsertedId(d, apiMarket, venueId),
                                !.outcomes = apiMarket.outcomes,
                                !.pc = "upsert outcome"],
                d)

\* upsertMarket: one round of the loop over the outcomes; after the last
\* one upsertMarket returns and totalMarkets++.
UpsertOutcome(r) ==
    /\ r \in 1..Len(runs)
    /\ runs[r].pc = "upsert outcome"
    /\ LET rest == Tail(runs[r].outcomes)
       IN  Step(r, "upsert outcome",
                IF rest # <<>> THEN [runs[r] EXCEPT !.outcomes = rest]
                ELSE syncMarketsOn([runs[r] EXCEPT !.outcomes = <<>>, !.marketId = "",
                                                   !.marketsProcessed = @ + 1],
                                   Tail(runs[r].fetched)),
                upsertOutcome(db, runs[r].marketId, Head(runs[r].outcomes)))

\* runMatching: findMany, findAllMatches, groupMatches
ReadUngrouped(r) ==
    /\ r \in 1..Len(runs)
    /\ runs[r].pc = "match"
    /\ \E found \in {matchedGroups(ungroupedActive(db))} :
           Step(r, "match",
                [runs[r] EXCEPT !.todo = found,
                                !.pc = IF found = <<>> THEN "detect" ELSE "find"],
                db)

\* generateCanonicalTitle and prisma.marketGroup.findFirst
FindGroup(r) ==
    /\ r \in 1..Len(runs)
    /\ runs[r].pc = "find"
    /\ LET group == findFirstGroup(db, generateCanonicalTitle(Head(runs[r].todo)).value)
       IN  Step(r, "find",
                [runs[r] EXCEPT !.group = group, !.reused = group # NULL, !.member = 1,
                                !.pc = IF group = NULL THEN "create" ELSE "link"],
                db)

CreateGroup(r) ==
    /\ r \in 1..Len(runs)
    /\ runs[r].pc = "create"
    /\ Step(r, "create",
            [runs[r] EXCEPT !.group = Some(nextGroupId(db)), !.pc = "link"],
            createGroup(db, generateCanonicalTitle(Head(runs[r].todo)).value,
                        categoryOf(Head(runs[r].todo))))

\* One round of the loop over the markets of the group.
LinkMarket(r) ==
    /\ r \in 1..Len(runs)
    /\ runs[r].pc = "link"
    /\ LET marketGroup == Head(runs[r].todo)
           last == runs[r].member = Len(marketGroup)
           rest == Tail(runs[r].todo)
       IN  Step(r, "link",
                [runs[r] EXCEPT
                   !.member = IF last THEN 1 ELSE @ + 1,
                   !.todo = IF last THEN rest ELSE @,
                   !.group = IF last THEN NULL ELSE @,
                   !.reused = IF last THEN FALSE ELSE @,
                   !.pc = IF ~last THEN "link" ELSE IF rest = <<>> THEN "detect" ELSE "find"],
                linkMarket(db, marketGroup[runs[r].member].id, runs[r].group.value))

\* detectAllOpportunities: prisma.marketGroup.findMany
ReadGroups(r) ==
    /\ r \in 1..Len(runs)
    /\ Step(r, "detect",
            [runs[r] EXCEPT !.snapshot = groupsWithMarkets(db), !.pc = "deactivate"], db)

\* prisma.opportunity.updateMany; the loop over the groups that follows
\* awaits nothing but the creates of the findings.
DeactivateOpportunities(r) ==
    /\ r \in 1..Len(runs)
    /\ runs[r].pc = "deactivate"
    /\ \E found \in {findingsOfAll(runs[r].snapshot)} :
           Step(r, "deactivate",
                [runs[r] EXCEPT !.creates = found,
                                !.pc = IF found = <<>> THEN "complete"
                                       ELSE "create opportunity"],
                deactivateOpportunities(db))

\* One prisma.opportunity.create, and opportunityCount++.
CreateOpportunities(r) ==
    /\ r \in 1..Len(runs)
    /\ runs[r].pc = "create opportunity"
    /\ LET rest == Tail(runs[r].creates)
       IN  Step(r, "create opportunity",
                [runs[r] EXCEPT
                   !.opportunityCount = @ + 1,
                   !.creates = rest,
                   !.pc = IF rest = <<>> THEN "complete" ELSE "create opportunity"],
                createOpportunity(db, Head(runs[r].creates)))

\* Variant: the update goes to the oldest log.
updateOldestSyncLog(d, id, data) ==
    [d EXCEPT !.syncLogs = [k \in 1..Len(@) |->
        IF k = 1
        THEN [f \in DOMAIN @[k] |-> IF f \in DOMAIN data THEN data[f] ELSE @[k][f]]
        ELSE @[k]]]


\* prisma.syncLog.update({ where: { id }, data })
updateSyncLog(d, id, data) ==
    [d EXCEPT !.syncLogs = [k \in 1..Len(@) |->
        IF @[k].id = id
        THEN [f \in DOMAIN @[k] |-> IF f \in DOMAIN data THEN data[f] ELSE @[k][f]]
        ELSE @[k]]]

\* The log is completed, runSync returns and the route answers 200.
CompleteSyncLog(r) ==
    /\ r \in 1..Len(runs)
    /\ Step(r, "complete",
            Answered(runs[r], 200,
                     [marketsProcessed |-> runs[r].marketsProcessed,
                      opportunitiesFound |-> runs[r].opportunityCount,
                      error |-> ""]),
            updateSyncLog(db, runs[r].logId,
                          [status |-> "completed", endedAt |-> Some(now),
                           marketsProcessed |-> runs[r].marketsProcessed,
                           opportunitiesFound |-> runs[r].opportunityCount]))

\* The awaited queries of the try block; fetchMarketsFromSource catches what
\* its fetch throws.
TryBlock ==
    {"venues", "upsert market", "upsert outcome", "match", "find", "create", "link",
     "detect", "deactivate", "create opportunity", "complete"}

\* A query of the try block rejects: control goes to the catch.
Throws(r) ==
    /\ r \in 1..Len(runs)
    /\ runs[r].pc \in TryBlock
    /\ Incidents < MaxIncidents
    /\ Step(r, runs[r].pc,
            [NewRun(runs[r].authHeader) EXCEPT !.pc = "catch", !.logId = runs[r].logId,
                                               !.error = "Database error"], db)

\* catch: the log is failed, runSync returns the error and the route answers 500.
FailSyncLog(r) ==
    /\ r \in 1..Len(runs)
    /\ Step(r, "catch",
            Answered(runs[r], 500,
                     [marketsProcessed |-> 0, opportunitiesFound |-> 0,
                      error |-> runs[r].error]),
            updateSyncLog(db, runs[r].logId,
                          [status |-> "failed", endedAt |-> Some(now),
                           error |-> runs[r].error]))

\* The update of the catch rejects as well: runSync rejects, and the route
\* answers 500 from its own catch.
Rejects(r) ==
    /\ r \in 1..Len(runs)
    /\ Step(r, "catch", Answered(runs[r], 500, NULL), db)

(***************************************************************************)
(* The admin routes.  admin is the list of the requests made to them so    *)
(* far; a request's record holds its body, the await it stands at and its  *)
(* answer.  A field the body leaves out is "", or NULL for marketIds and   *)
(* isVerified.  wrote says that the request has written a groupId.         *)
(***************************************************************************)
NewRequest(route, body, at, status) ==
    [route |-> route, body |-> body, pc |-> at, status |-> status, category |-> NULL,
     group |-> "", wrote |-> FALSE, error |-> ""]

AdminAnswered(request, status) == [request EXCEPT !.pc = "done", !.status = status]

AdminStep(a, at, request, d) ==
    /\ pc = "serving"
    /\ a \in 1..Len(admin)
    /\ admin[a].pc = at
    /\ admin' = [admin EXCEPT ![a] = request]
    /\ db' = d
    /\ UNCHANGED <<detectionVars, runs, env, now, decayed>>

\* if (!action || !marketIds || !Array.isArray(marketIds)) return 400, and
\* the checks of the switch
postStartsAt(body) ==
    IF body.action = "" \/ body.marketIds = NULL THEN "done"
    ELSE IF body.action = "link" THEN (IF body.groupId = "" THEN "done" ELSE "link markets")
    ELSE IF body.action = "unlink" THEN "unlink markets"
    ELSE IF body.action = "createGroup"
    THEN (IF body.newGroupTitle = "" THEN "done" ELSE "find first market")
    ELSE "done"

\* POST /api/markets, up to its first query
Post(body) ==
    /\ pc = "serving"
    /\ Incidents < MaxIncidents
    /\ admin' = Append(admin, NewRequest("markets", body, postStartsAt(body),
                                         IF postStartsAt(body) = "done" THEN 400 ELSE 0))
    /\ UNCHANGED <<detectionVars, db, runs, env, now, decayed>>

\* case "link": market.updateMany; a groupId that names no group is refused
\* by the foreign key and the catch answers 500.
LinkMarkets(a) ==
    /\ a \in 1..Len(admin)
    /\ admin[a].pc = "link markets"
    /\ LET body == admin[a].body
       IN  IF violatesForeignKey(db, body.marketIds.value, body.groupId)
           THEN AdminStep(a, "link markets", AdminAnswered(admin[a], 500), db)
           ELSE AdminStep(a, "link markets",
                          [admin[a] EXCEPT !.pc = "verify group", !.wrote = TRUE],
                          updateManyMarkets(db, body.marketIds.value, Some(body.groupId)))

\* case "link": marketGroup.update({ data: { isVerified: true } }), which
\* rejects when there is no such group
VerifyGroup(a) ==
    /\ a \in 1..Len(admin)
    /\ admin[a].pc = "verify group"
    /\ IF groupExists(db, admin[a].body.groupId)
       THEN AdminStep(a, "verify group", AdminAnswered(admin[a], 200),
                      updateGroup(db, admin[a].body.groupId, [isVerified |-> TRUE]))
       ELSE AdminStep(a, "verify group", AdminAnswered(admin[a], 500), db)

\* case "unlink": market.updateMany({ data: { groupId: null } })
UnlinkMarkets(a) ==
    /\ a \in 1..Len(admin)
    /\ AdminStep(a, "unlink markets", AdminAnswered(admin[a], 200),
                 updateManyMarkets(db, admin[a].body.marketIds.value, NULL))

\* case "createGroup": market.findFirst
FindFirstMarket(a) ==
    /\ a \in 1..Len(admin)
    /\ admin[a].pc = "find first market"
    /\ LET firstMarket == findFirstMarket(db, admin[a].body.marketIds.value)
       IN  AdminStep(a, "find first market",
                     [admin[a] EXCEPT !.pc = "create group",
                                      !.category = IF firstMarket = NULL THEN NULL
                                                   ELSE Some(firstMarket.value.category)],
                     db)

\* case "createGroup": marketGroup.create
CreateVerifiedGroup(a) ==
    /\ a \in 1..Len(admin)
    /\ admin[a].pc = "create group"
    /\ AdminStep(a, "create group",
                 [admin[a] EXCEPT !.pc = "link new group", !.group = nextGroupId(db)],
                 createVerifiedGroup(db, admin[a].body.newGroupTitle, admin[a].category))

\* case "createGroup": market.updateMany({ data: { groupId: group.id } })
LinkNewGroup(a) ==
    /\ a \in 1..Len(admin)
    /\ admin[a].pc = "link new group"
    /\ AdminStep(a, "link new group",
                 AdminAnswered([admin[a] EXCEPT !.wrote = TRUE], 200),
                 updateManyMarkets(db, admin[a].body.marketIds.value, Some(admin[a].group)))

\* PATCH /api/groups, up to its query: if (!groupId) return 400
Patch(body) ==
    /\ pc = "serving"
    /\ Incidents < MaxIncidents
    /\ admin' = Append(admin, NewRequest("groups", body,
                                         IF body.groupId = "" THEN "done" ELSE "update group",
                                         IF body.groupId = "" THEN 400 ELSE 0))
    /\ UNCHANGED <<detectionVars, db, runs, env, now, decayed>>

\* prisma.marketGroup.update({ where: { id: groupId }, data: updateData }),
\* which rejects when there is no such group
UpdateGroup(a) ==
    /\ a \in 1..Len(admin)
    /\ admin[a].pc = "update group"
    /\ IF groupExists(db, admin[a].body.groupId)
       THEN AdminStep(a, "update group", AdminAnswered(admin[a], 200),
                      updateGroup(db, admin[a].body.groupId, updateDataOf(admin[a].body)))
       ELSE AdminStep(a, "update group", AdminAnswered(admin[a], 500), db)

\* A query of an admin request rejects: its catch answers 500.
AdminThrows(a) ==
    /\ a \in 1..Len(admin)
    /\ admin[a].pc # "done"
    /\ AdminStep(a, admin[a].pc,
                 AdminAnswered([admin[a] EXCEPT !.error = "Database error"], 500), db)

(***************************************************************************)
(* SpecSync: requests to the cron route, one after the other, against the  *)
(* venues' endpoints, and requests to the admin routes at any time.        *)
(* SpecOverlap: a request to the cron route may arrive while another one   *)
(* is being served.                                                        *)
(***************************************************************************)
\* What the Polymarket endpoint lists, the first market at first and all of
\* them later on: two markets on one question, a market on another question
\* and a closed market.
PolymarketMarket(conditionId, slug, title, status, volume) ==
    [condition_id |-> conditionId, market_slug |-> slug, title |-> title,
     tags |-> <<"Crypto">>, volume_total |-> volume, status |-> status,
     side_a |-> [id |-> conditionId \o "-a", label |-> "Yes"],
     side_b |-> [id |-> conditionId \o "-b", label |-> "No"]]

PolymarketListings ==
    <<PolymarketMarket("0xa1", "btc-100k-2025", "BTC above $100K in 2025?", "open", 1000),
      PolymarketMarket("0xb2", "btc-100k-2025-b", "BTC above $100K in 2025?", "open", 500),
      PolymarketMarket("0xc3", "fed-cut-q1-2026", "Will the Fed cut rates in Q1 2026?",
                       "open", 700),
      PolymarketMarket("0xd4", "fed-q1-2026", "Federal Reserve rate cut Q1 2026",
                       "closed", 200)>>

\* What the Kalshi endpoint lists: the last market has no title.  A field
\* the endpoint leaves out is "" or 0, which the code reads as it reads a
\* missing one.
KalshiMarket(eventTicker, ticker, title, lastPrice, volume, volume24h) ==
    [event_ticker |-> eventTicker, market_ticker |-> ticker, title |-> title,
     status |-> "open", last_price |-> lastPrice, volume |-> volume,
     volume_24h |-> volume24h]

KalshiListings ==
    <<KalshiMarket("KXBTC_25", "KXBTC-25", "Will BTC hit 100k in 2025", 45, 3000, 100),
      KalshiMarket("KXBTC_25", "KXBTC-25B", "Will BTC hit 100k in 2025", 0, 0, 800),
      KalshiMarket("", "KXFED-26Q1", "Federal Reserve rate cut Q1 2026", 52, 400, 0),
      KalshiMarket("KXFED_26", "KXFED-26Q2", "", 40, 0, 0)>>

ListingsOf(venue) == IF venue = "polymarket" THEN PolymarketListings ELSE KalshiListings

\* The endpoint answers with the first market, with all of them, or fails.
ApiResponses(venue) ==
    {[kind |-> "ok", markets |-> SubSeq(ListingsOf(venue), 1, 1)],
     [kind |-> "ok", markets |-> ListingsOf(venue)],
     [kind |-> "http", markets |-> <<>>],
     [kind |-> "network", markets |-> <<>>]}

ResponsesAt(r) ==
    IF r <= Len(runs) /\ runs[r].pc = "fetch" THEN ApiResponses(SUPPORTED_VENUES[runs[r].venue]) ELSE {}

\* What the admin asks of POST /api/markets: to link the first market of
\* each of the first two listings to the first group, to unlink the first
\* market, to make a group of the first market, and a body without action.
MarketsBody(action, marketIds, groupId, newGroupTitle) ==
    [action |-> action, marketIds |-> marketIds, groupId |-> groupId,
     newGroupTitle |-> newGroupTitle]

PostBodies ==
    {MarketsBody("link", Some(<<"m1", "m3">>), "g1", ""),
     MarketsBody("unlink", Some(<<"m1">>), "", ""),
     MarketsBody("createGroup", Some(<<"m1">>), "", "btc above $100k in 2025? (checked)"),
     MarketsBody("", NULL, "", "")}

\* What the admin asks of PATCH /api/groups: to verify the first group, to
\* give it another title, and a body without groupId.
GroupsBody(groupId, isVerified, canonicalTitle) ==
    [groupId |-> groupId, isVerified |-> isVerified, canonicalTitle |-> canonicalTitle]

PatchBodies ==
    {GroupsBody("g1", Some(TRUE), ""),
     GroupsBody("g1", NULL, "Bitcoin at $100K"),
     GroupsBody("", NULL, "")}

AuthHeaders == {NULL, Some("Bearer s3cret"), Some("Bearer guess")}

Serving(demoMode, key, secret) ==
    /\ markets = <<>>
    /\ call = NoCall
    /\ matches = <<>>
    /\ minScore = DefaultMinScore
    /\ groups = <<>>
    /\ pc = "serving"
    /\ NoDetection
    /\ db = EmptyDb
    /\ runs = <<>>
    /\ admin = <<>>
    /\ env = [DEMO_MODE |-> demoMode, CRON_SECRET |-> secret, DOMEAPI_KEY |-> key]
    /\ now = 0
    /\ decayed = NULL

\* A deployment with CRON_SECRET set that fetches from the DomeAPI, with or
\* without its key.
InitSync == \E key \in {"", "dome-key"} : Serving("", key, "s3cret")

RunSync(r) ==
    \/ CreateSyncLog(r)
    \/ RejectSyncLog(r)
    \/ InitializeVenues(r)
    \/ \E response \in ResponsesAt(r) : SyncVenue(r, response)
    \/ UpsertMarket(r)
    \/ UpsertOutcome(r)
    \/ ReadUngrouped(r)
    \/ FindGroup(r)
    \/ CreateGroup(r)
    \/ LinkMarket(r)
    \/ ReadGroups(r)
    \/ DeactivateOpportunities(r)
    \/ CreateOpportunities(r)
    \/ CompleteSyncLog(r)
    \/ Throws(r)
    \/ FailSyncLog(r)
    \/ Rejects(r)

Admin(a) ==
    \/ LinkMarkets(a)
    \/ VerifyGroup(a)
    \/ UnlinkMarkets(a)
    \/ FindFirstMarket(a)
    \/ CreateVerifiedGroup(a)
    \/ LinkNewGroup(a)
    \/ UpdateGroup(a)
    \/ AdminThrows(a)

NextSync ==
    \/ \E authHeader \in AuthHeaders : Get(authHeader)
    \/ \E r \in 1..MaxRuns : RunSync(r)
    \/ \E body \in PostBodies : Post(body)
    \/ \E body \in PatchBodies : Patch(body)
    \/ \E a \in 1..MaxIncidents : Admin(a)

SpecSync == InitSync /\ [][NextSync]_vars

\* Two requests may overlap.  The deployment fetches from the DomeAPI, whose
\* endpoints list their first market, and no query rejects.
InitOverlap == Serving("", "dome-key", "s3cret")

FirstListingAt(r) == {response \in ResponsesAt(r) : Len(response.markets) = 1}

NextOverlap ==
    \/ \E authHeader \in AuthHeaders : Get(authHeader)
    \/ \E authHeader \in AuthHeaders : OverlappingGet(authHeader)
    \/ \E r \in 1..MaxRuns :
          \/ CreateSyncLog(r)
          \/ InitializeVenues(r)
          \/ \E response \in FirstListingAt(r) : SyncVenue(r, response)
          \/ UpsertMarket(r)
          \/ UpsertOutcome(r)
          \/ ReadUngrouped(r)
          \/ FindGroup(r)
          \/ CreateGroup(r)
          \/ LinkMarket(r)
          \/ ReadGroups(r)
          \/ DeactivateOpportunities(r)
          \/ CreateOpportunities(r)
          \/ CompleteSyncLog(r)

SpecOverlap == InitOverlap /\ [][NextOverlap]_vars

(***************************************************************************)
(* SpecCron: the cron route of a deployment in demo mode, with and without *)
(* CRON_SECRET.  Every sync reads the mock markets of the two venues.      *)
(***************************************************************************)
InitCron == \E secret \in {"", "s3cret"} : Serving("true", "", secret)

NextCron ==
    \/ \E authHeader \in AuthHeaders : Get(authHeader)
    \/ \E r \in 1..MaxRuns :
          \/ CreateSyncLog(r)
          \/ RejectSyncLog(r)
          \/ InitializeVenues(r)
          \/ \E response \in ResponsesAt(r) : SyncVenue(r, response)
          \/ UpsertMarket(r)
          \/ UpsertOutcome(r)
          \/ ReadUngrouped(r)
          \/ FindGroup(r)
          \/ CreateGroup(r)
          \/ LinkMarket(r)
          \/ ReadGroups(r)
          \/ DeactivateOpportunities(r)
          \/ CreateOpportunities(r)
          \/ CompleteSyncLog(r)
          \/ Throws(r)
          \/ FailSyncLog(r)
          \/ Rejects(r)

SpecCron == InitCron /\ [][NextCron]_vars

(***************************************************************************)
(* Properties of the sync service, stated on the tables.                   *)
(***************************************************************************)
\* The markets of the table as they were before any of them was linked.
Unlinked == [k \in 1..Len(db.markets) |-> [db.markets[k] EXCEPT !.groupId = NULL]]

\* The pairs the matcher makes of the active markets when none is grouped.
MatchedPairs ==
    {{marketGroup[1].id, marketGroup[2].id} :
        marketGroup \in Range(matchedGroups(SelectSeq(Unlinked, LAMBDA m : m.status = "active")))}

GroupOfMarket(id) == (CHOOSE m \in Range(db.markets) : m.id = id).groupId

MarketsIn(groupId) == {m \in Range(db.markets) : m.groupId = Some(groupId)}

Completed(r) == runs[r].pc = "done" /\ runs[r].status = 200

\* C23: when two overlapping runSync executions that ran the matcher over the
\* same ungrouped markets have both completed, the two markets of every
\* matched pair are linked to the same persisted group and every persisted
\* group holds at least two markets.
C23_OverlapKeepsPairs ==
    (Len(runs) = 2 /\ Completed(1) /\ Completed(2)) =>
        /\ \A pair \in MatchedPairs :
              \A a, b \in pair : GroupOfMarket(a) # NULL /\ GroupOfMarket(a) = GroupOfMarket(b)
        /\ \A g \in Range(db.groups) : Cardinality(MarketsIn(g.id)) >= 2


\* The requests that started a sync, in order.
Started == SelectSeq(runs, LAMBDA run : run.status # 401)

\* No request is under way and the last sync completed.
LastSyncCompleted ==
    Quiet /\ Started # <<>> /\ Started[Len(Started)].status = 200

ActiveRows == SelectSeq(db.opportunities, LAMBDA o : o.isActive)

ActiveOf(groupId) == SelectSeq(ActiveRows, LAMBDA o : o.groupId = groupId)

\* What the detectors find in the group as the tables hold it.
DetectedIn(g) ==
    detectOpportunities([id |-> g.id,
                         markets |-> SelectSeq(db.markets,
                                               LAMBDA m : m.groupId = Some(g.id))])

\* C24 as documented: after non-overlapping runs the last of which completed,
\* the active Opportunity rows are exactly the findings of that run's
\* detection pass: per group with two markets or more one row for each
\* finding of the detectors, at most one of each type, and none for a group
\* with fewer than two markets.
C24_ActiveAreLastFindings ==
    LastSyncCompleted =>
        \A g \in Range(db.groups) :
            LET active == ActiveOf(g.id)
                found == DetectedIn(g)
            IN  IF Cardinality(MarketsIn(g.id)) < 2 THEN active = <<>>
                ELSE /\ [k \in 1..Len(active) |->
                            <<active[k].type, active[k].score, active[k].spread>>]
                        = [k \in 1..Len(found) |->
                            <<found[k].type, found[k].score, found[k].spread>>]
                     /\ \A j, k \in 1..Len(active) :
                           active[j].type = active[k].type => j = k

\* The groups the detection pass of the last sync read, with their markets
\* as it read them.
LastPass == Started[Len(Started)].snapshot

\* C24: after non-overlapping runs the last of which completed, the active
\* Opportunity rows are exactly the findings of that run's detection pass on
\* the groups as the pass read them: per group that had two markets or more
\* one row for each finding of the detectors, at most one of each type, none
\* for a group that had fewer than two markets, and none for a group the
\* pass did not read.
C24_ActiveAreFindingsOfLastPass ==
    LastSyncCompleted =>
        /\ \A p \in 1..Len(LastPass) :
              LET active == ActiveOf(LastPass[p].id)
                  found == detectOpportunities(LastPass[p])
              IN  IF Len(LastPass[p].markets) < 2 THEN active = <<>>
                  ELSE /\ [k \in 1..Len(active) |->
                              <<active[k].type, active[k].score, active[k].spread>>]
                          = [k \in 1..Len(found) |->
                              <<found[k].type, found[k].score, found[k].spread>>]
                       /\ \A j, k \in 1..Len(active) :
                             active[j].type = active[k].type => j = k
        /\ \A o \in Range(ActiveRows) :
              \E p \in 1..Len(LastPass) : LastPass[p].id = o.groupId

\* Two syncs completed: the rows of the first are deactivated and the second
\* created its own; a market was unlinked afterwards, and its group keeps
\* its active rows with a single market left.
C24_Witness ==
    /\ LastSyncCompleted
    /\ Len(Started) = 2
    /\ Started[1].status = 200
    /\ ActiveRows # <<>>
    /\ \E o \in Range(db.opportunities) : ~o.isActive
    /\ \E g \in Range(db.groups) :
          Cardinality(MarketsIn(g.id)) = 1 /\ ActiveOf(g.id) # <<>>

\* A sync completed after a failed one left a group with a single market.
SingleMarketGroupSkipped ==
    /\ LastSyncCompleted
    /\ admin = <<>>
    /\ \E g \in Range(db.groups) : Cardinality(MarketsIn(g.id)) = 1


\* The title of the market of the pair with the highest volume + 2 * liquidity.
TitleOfPair(pair) ==
    (CHOOSE m \in Range(pair) :
        \A other \in Range(pair) :
            volumeOf(m) + 2 * liquidityOf(m) >= volumeOf(other) + 2 * liquidityOf(other)).title

\* The persisted groups that hold two markets of one venue.
SameVenueGroups(d) ==
    {g.id : g \in {g \in Range(d.groups) :
                      \E a, b \in Range(d.markets) :
                          /\ a.groupId = Some(g.id) /\ b.groupId = Some(g.id)
                          /\ a.id # b.id /\ a.venueId = b.venueId}}

\* The group an admin request has linked markets to, if it has.
AdminLinkedTo(request) ==
    IF ~request.wrote THEN NULL
    ELSE IF request.body.action = "link" THEN Some(request.body.groupId)
    ELSE Some(request.group)

\* C25: a persisted group can come to hold two markets of one venue by the
\* re-use of an existing group.  A step of runSync that brings the second
\* market of a venue into a group no admin request has linked markets to is
\* a link to a group that findFirst returned, and the title of a group
\* findFirst returns contains the first 50 characters of the new pair's
\* canonical title.
C25_SameVenueOnlyByReuse ==
    [][/\ \A id \in SameVenueGroups(db') \ SameVenueGroups(db) :
             \/ \E a \in 1..Len(admin') : AdminLinkedTo(admin'[a]) = Some(id)
             \/ \E r \in 1..Len(runs) :
                   /\ runs[r].pc = "link"
                   /\ runs[r].group = Some(id)
                   /\ runs[r].reused
       /\ \A r \in 1..Len(runs) :
             (runs[r].pc = "find" /\ runs'[r].pc = "link") =>
                 \E g \in Range(db.groups) :
                     /\ runs'[r].group = Some(g.id)
                     /\ contains(g.canonicalTitle,
                                 titlePrefixOf(TitleOfPair(Head(runs[r].todo))))]_vars

\* After two completed syncs, the first on one market of each venue, and no
\* admin request, a group holds two markets of one venue.
C25_Witness ==
    /\ LastSyncCompleted
    /\ admin = <<>>
    /\ Len(Started) = 2
    /\ Started[1].status = 200
    /\ Started[1].result.marketsProcessed = 2
    /\ SameVenueGroups(db) # {}

Upserted(venue, externalId) ==
    \E m \in Range(db.markets) : m.venueId = venue /\ m.externalId = externalId

\* C26: when the fetch from the real API fails (here: DOMEAPI_KEY is not
\* set, so every request fails), fetchMarketsFromSource falls back to the
\* venue's mock data and the sync upserts the venue's mock markets.
C26_FailedFetchFallsBack ==
    (env.DEMO_MODE # "true" /\ env.DOMEAPI_KEY = "" /\ LastSyncCompleted) =>
        \A i \in 1..Len(SUPPORTED_VENUES) :
            \A mock \in Range(getMockMarketsForVenue(SUPPORTED_VENUES[i])) :
                Upserted(SUPPORTED_VENUES[i], mock.id)

LogsOf(run) == SelectSeq(db.syncLogs, LAMBDA log : log.id = run.logId)

\* runSync was called for the request and has created its log.
Logged(run) == run.logId # ""

\* runSync has returned to the route.
HasReturned(run) == run.result # NULL

\* runSync was called for the request and is past its first query.
Called(run) == run.status # 401 /\ run.pc # "start"

\* What holds of the log of a run and of what the run returned.
LogFollows(run) ==
    /\ Len(LogsOf(run)) = 1
    /\ run.pc # "done" => LogsOf(run)[1].status = "running"
    /\ HasReturned(run) =>
          LET log == LogsOf(run)[1]
              result == run.result
          IN  /\ log.status \in {"completed", "failed"}
              /\ log.endedAt # NULL
              /\ (result.error # "") <=> (log.status = "failed")
              /\ result.error # "" =>
                    /\ result.marketsProcessed = 0
                    /\ result.opportunitiesFound = 0
                    /\ log.error = result.error
              /\ result.error = "" =>
                    /\ log.marketsProcessed = result.marketsProcessed
                    /\ log.opportunitiesFound = result.opportunitiesFound

\* C27 as documented: every runSync creates one SyncLog, in status "running";
\* when runSync returns, its log is "completed" or "failed" with endedAt set;
\* the result carries an error exactly when the log is "failed", and then
\* reports 0 markets processed and 0 opportunities found.
C27_SyncLogLifecycle ==
    /\ Len(db.syncLogs) = Cardinality({r \in 1..Len(runs) : Called(runs[r])})
    /\ \A r \in 1..Len(runs) : Called(runs[r]) => LogFollows(runs[r])

\* C27: every runSync whose syncLog.create resolves creates one SyncLog, in
\* status "running"; when runSync returns, its log is "completed" or
\* "failed" with endedAt set; the result carries an error exactly when the
\* log is "failed", and then reports 0 markets processed and 0 opportunities
\* found.  A runSync whose syncLog.create rejects writes no log and returns
\* nothing: the route answers 500.
C27_SyncLogLifecycleOfCreated ==
    /\ Len(db.syncLogs) = Cardinality({r \in 1..Len(runs) : Logged(runs[r])})
    /\ \A r \in 1..Len(runs) :
          /\ Logged(runs[r]) => LogFollows(runs[r])
          /\ (Called(runs[r]) /\ ~Logged(runs[r])) =>
                /\ runs[r].pc = "done"
                /\ runs[r].status = 500
                /\ ~HasReturned(runs[r])

\* A sync that failed and returned its error, then a sync that completed with
\* markets processed and opportunities found.
C27_Witness ==
    /\ Len(runs) = 2
    /\ HasReturned(runs[1]) /\ runs[1].result.error # ""
    /\ HasReturned(runs[2]) /\ runs[2].result.error = ""
    /\ runs[2].result.marketsProcessed > 0
    /\ runs[2].result.opportunitiesFound > 0
    /\ db.syncLogs[1].status = "failed"
    /\ db.syncLogs[2].status = "completed"

\* The row of the market with this id.
RowOf(id) == CHOOSE m \in Range(db.markets) : m.id = id

\* Run r has read the markets to match in this step.
HasRead(r) == runs[r].pc = "match" /\ runs'[r].pc \in {"find", "detect"}

\* The markets read in this step are active, in no group, and in one pair each.
ReadsUngrouped ==
    \A r \in 1..Len(runs) :
        HasRead(r) =>
            LET todo == runs'[r].todo
            IN  /\ \A g \in 1..Len(todo) : \A k \in 1..Len(todo[g]) :
                       /\ RowOf(todo[g][k].id).status = "active"
                       /\ RowOf(todo[g][k].id).groupId = NULL
                /\ \A g, h \in 1..Len(todo) : \A k \in 1..Len(todo[g]) :
                       \A l \in 1..Len(todo[h]) :
                           todo[g][k].id = todo[h][l].id => (g = h /\ k = l)

\* This step is a step of a runSync.
SyncStep == runs' # runs

\* C28 as documented: with requests served one after the other, the markets
\* a run of runMatching pairs up were active and in no group when it read
\* them, no market is in two of its pairs, and no step of any run changes
\* the groupId of a market that has one.
C28_GroupedMarketsStay ==
    [][/\ ReadsUngrouped
       /\ SyncStep =>
             \A k \in 1..Len(db.markets) :
                 db.markets[k].groupId # NULL =>
                     db'.markets[k].groupId = db.markets[k].groupId]_vars

\* An admin request has written the groupId of the market.
LinkedByAdmin(market) ==
    \E a \in 1..Len(admin) :
        admin[a].wrote /\ inIds(market, admin[a].body.marketIds.value)

\* C28: with requests to the cron route served one after the other, the
\* markets a run of runMatching pairs up were active and in no group when
\* it read them, and no market is in two of its pairs; a step of a run
\* changes the groupId of no market but the one of its pairs it is linking,
\* and that market has a group at that step only if an admin request gave
\* it one after the run read it.
C28_UngroupedWhenReadStay ==
    [][/\ ReadsUngrouped
       /\ SyncStep =>
             \A k \in 1..Len(db.markets) :
                 db'.markets[k].groupId # db.markets[k].groupId =>
                     /\ \E r \in 1..Len(runs) :
                           /\ runs[r].pc = "link"
                           /\ Head(runs[r].todo)[runs[r].member].id = db.markets[k].id
                     /\ db.markets[k].groupId # NULL => LinkedByAdmin(db.markets[k])]_vars

\* Two syncs have completed; the first one processed one market of each
\* venue and grouped them, the second one grouped markets into two groups
\* while a closed market stayed in no group.
C28_Witness ==
    /\ Len(runs) = 2
    /\ admin = <<>>
    /\ Completed(1) /\ Completed(2)
    /\ runs[1].result.marketsProcessed = 2
    /\ runs[1].result.opportunitiesFound > 0
    /\ Len(db.groups) = 2
    /\ Cardinality(MarketsIn("g1")) >= 2
    /\ Cardinality(MarketsIn("g2")) >= 2
    /\ \E m \in Range(db.markets) : m.status # "active" /\ m.groupId = NULL

\* The request r was let through to runSync.
StartedSync(r) == runs[r].status # 401

\* C29: a request to the cron route starts a sync only if CRON_SECRET is
\* configured and the Authorization header of the request carries it.
C29_SyncOnlyWithSecret ==
    \A r \in 1..Len(runs) :
        StartedSync(r) =>
            /\ env.CRON_SECRET # ""
            /\ runs[r].authHeader = Some("Bearer " \o env.CRON_SECRET)

(***************************************************************************)
(* SpecArbitrage: detectArbitrage on a group of two binary markets of      *)
(* different venues whose prices lie anywhere in [0, 1], the ends          *)
(* included.                                                               *)
(***************************************************************************)
\* Prices in hundredths.
ExtremePrices == {0, 1, 50, 99, 100}

InitArbitrage ==
    \E yes1, no1, yes2, no2 \in ExtremePrices :
        /\ markets = <<>>
        /\ call = NoCall
        /\ matches = <<>>
        /\ minScore = DefaultMinScore
        /\ groups = <<>>
        /\ pc = "group"
        /\ groupIn = GroupOf(<<PricedMarket("p1", "polymarket", "BTC above $100K in 2025?",
                                            Some(1000), YesNo(yes1, no1)),
                               PricedMarket("k1", "kalshi", "Will BTC hit 100k in 2025",
                                            Some(3000), YesNo(yes2, no2))>>, 0)
        /\ opportunities = <<>>
        /\ det = NoResult
        /\ NoSync

NextArbitrage == DetectArbitrage

SpecArbitrage == InitArbitrage /\ [][NextArbitrage]_vars

\* The arbitrage finding detectArbitrage returned, if it returned one.
ArbitrageFound == det.fn = "detectArbitrage" /\ det.result # NULL

\* C30: for all prices in [0, 1] the profitPercent and the score of an
\* arbitrage finding are finite numbers; a guaranteed profit scores
\* 80 + profitPercent * 2, above 80, and a near arbitrage scores
\* 40 + max(0, profitPercent + 2) * 10, between 40 and 60.
C30_ArbitrageSeverityFinite ==
    ArbitrageFound =>
        LET info == det.result.details.arbitrageInfo
            score == det.result.score
        IN  /\ isFinite(info.profitPercent)
            /\ isFinite(score)
            /\ info.type = "guaranteed_profit" =>
                  /\ score = fAdd(fromInt(80), fMul(info.profitPercent, fromInt(2)))
                  /\ fLess(fromInt(80), score)
            /\ info.type = "near_arbitrage" =>
                  /\ score = fAdd(fromInt(40),
                                  fMul(IF fLess(fromInt(0), fAdd(info.profitPercent, fromInt(2)))
                                       THEN fAdd(info.profitPercent, fromInt(2))
                                       ELSE fromInt(0), fromInt(10)))
                  /\ ~fLess(score, fromInt(40))
                  /\ ~fLess(fromInt(60), score)

====
